---- MODULE Spec2Model ----
(***************************************************************************)
(* Device session synchronisation and webhook ingestion of budifikri/wapi. *)
(*                                                                         *)
(* The model follows src/src/lib/fastify/app.ts (webhook ingestor),        *)
(* src/src/lib/fastify/routes/sessions.ts (relay gateway) and              *)
(* src/src/lib/devicesService.ts (record store access).                    *)
(*                                                                         *)
(* JavaScript values are tagged records: Undef, Null, S(chars), N(n),      *)
(* B(b), O(record), A(sequence).  A string is a sequence of symbols, so    *)
(* that String.includes is a real sub-sequence search.                     *)
(***************************************************************************)
EXTENDS Integers, Sequences, FiniteSets, Bags, TLC

VARIABLES
  env,       \* process.env and the behaviour of the environment in this run
  input,     \* the requests and provider answers the environment may send
  apikeys,   \* table apikeys: rows [id, token, status, userId]
  devices,   \* table devices: rows [sessionId, key, userId, number, status]
  messages,  \* table messages: rows in insertion order
  contacts,  \* table contacts: rows [contactId, deviceKey, ...]
  pending,   \* relay requests forwarded to the provider and not yet answered
  last,      \* the most recently answered request: its reply, and whether a
             \* store operation of its handler threw
  hist,      \* history: what was delivered and answered so far, per sessionId
  users,     \* table users: rows [id, email, password, name, verified]
  blacklist  \* tokenBlacklist: the tokens invalidated since the process started

vars == <<env, input, apikeys, devices, messages, contacts, pending, last, hist,
          users, blacklist>>

-----------------------------------------------------------------------------
(* Bounds of the model *)

MaxInflight == 2   \* relay requests that may wait for the provider at once
MaxMessages == 2   \* rows the messages table may hold
NumKeys == 3       \* size of the space generateDeviceKey draws from

-----------------------------------------------------------------------------
(* JavaScript values *)

Undef == [t |-> "undef"]
Null == [t |-> "null"]
S(s) == [t |-> "str", s |-> s]
N(n) == [t |-> "num", n |-> n]
B(b) == [t |-> "bool", b |-> b]
O(r) == [t |-> "obj", o |-> r]
A(a) == [t |-> "arr", a |-> a]
Text(x) == S(<<x>>)

\* ToBoolean: undefined, null, "", 0 and false are falsy
Truthy(v) ==
  CASE v.t = "undef" -> FALSE
    [] v.t = "null" -> FALSE
    [] v.t = "str" -> Len(v.s) > 0
    [] v.t = "num" -> v.n # 0
    [] v.t = "bool" -> v.b
    [] OTHER -> TRUE

\* a || b
Or(a, b) == IF Truthy(a) THEN a ELSE b

\* v?.f : undefined for undefined/null, for a primitive and for a missing property
Get(v, f) == IF v.t = "obj" /\ f \in DOMAIN v.o THEN v.o[f] ELSE Undef

\* v.f throws a TypeError when v is undefined or null
Throws(v) == v.t \in {"undef", "null"}

\* Object.keys(v): a property holding undefined does not survive JSON
Keys(v) == IF v.t = "obj" THEN {f \in DOMAIN v.o : v.o[f] # Undef} ELSE {}

\* String.prototype.includes
Includes(s, sub) ==
  \E i \in 1..(Len(s) - Len(sub) + 1) : SubSeq(s, i, i + Len(sub) - 1) = sub

CUs == <<"@", "c", ".", "u", "s">>

DigitChar(d) ==
  CASE d = 0 -> "0" [] d = 1 -> "1" [] d = 2 -> "2" [] d = 3 -> "3" [] d = 4 -> "4"
    [] d = 5 -> "5" [] d = 6 -> "6" [] d = 7 -> "7" [] d = 8 -> "8" [] OTHER -> "9"

RECURSIVE Digits(_)
Digits(n) == IF n < 10 THEN <<DigitChar(n)>> ELSE Append(Digits(n \div 10), DigitChar(n % 10))

\* String(v) for a truthy v
ToStr(v) ==
  CASE v.t = "str" -> v.s
    [] v.t = "num" -> Digits(v.n)
    [] v.t = "bool" -> <<"t", "r", "u", "e">>
    [] OTHER -> <<"[object Object]">>

-----------------------------------------------------------------------------
(* The record store *)

DeviceKeys == 1..NumKeys

\* Math.random draws any key; a run whose environment is not keyClash draws
\* a key no device holds
GenerateDeviceKey(devs) ==
  IF env.keyClash THEN DeviceKeys
  ELSE DeviceKeys \ {d.key : d \in devs}

\* a store operation fails for a reason of its own only in a faulty run
StoreFaults == IF env.storeFaulty THEN BOOLEAN ELSE {FALSE}

DeviceOf(devs, sid) == {d \in devs : d.sessionId = sid}

\* prisma.devices.findUnique({where: {sessionId}})
GetDeviceBySessionId(devs, sid) ==
  IF DeviceOf(devs, sid) = {} THEN Null ELSE O(CHOOSE d \in DeviceOf(devs, sid) : TRUE)

\* prisma.devices.create: sessionId and key are unique columns.  The result
\* is the set of outcomes [ok, devices] over the keys that may be drawn.
CreateDeviceNoUnique(devs, sid, userId, number, status, fault) ==
  IF fault THEN {[ok |-> FALSE, devices |-> devs]}
  ELSE {[ok |-> TRUE,
         devices |-> devs \cup {[sessionId |-> sid, key |-> k, userId |-> userId,
                                 number |-> number, status |-> status]}]
        : k \in GenerateDeviceKey(devs)}

CreateDevice(devs, sid, userId, number, status, fault) ==
  IF fault \/ GenerateDeviceKey(devs) = {} THEN {[ok |-> FALSE, devices |-> devs]}
  ELSE {IF DeviceOf(devs, sid) # {} \/ k \in {d.key : d \in devs}
        THEN [ok |-> FALSE, devices |-> devs]
        ELSE [ok |-> TRUE,
              devices |-> devs \cup {[sessionId |-> sid, key |-> k, userId |-> userId,
                                      number |-> number, status |-> status]}]
        : k \in GenerateDeviceKey(devs)}

\* prisma.devices.update({where: {sessionId}, data: {status}}): throws when
\* no row matches
UpdateDeviceStatusDropDisconnected(devs, sid, status, fault) ==
  IF fault \/ DeviceOf(devs, sid) = {} THEN [ok |-> FALSE, devices |-> devs]
  ELSE [ok |-> TRUE,
        devices |-> IF status = "disconnected" THEN devs \ DeviceOf(devs, sid)
                    ELSE {IF d.sessionId = sid THEN [d EXCEPT !.status = status] ELSE d
                          : d \in devs}]

UpdateDeviceStatus(devs, sid, status, fault) ==
  IF fault \/ DeviceOf(devs, sid) = {} THEN [ok |-> FALSE, devices |-> devs]
  ELSE [ok |-> TRUE,
        devices |-> {IF d.sessionId = sid THEN [d EXCEPT !.status = status] ELSE d
                     : d \in devs}]

\* deleteDevice: prisma.devices.delete({where: {sessionId}}), which throws
\* when no row matches. No route calls it; it is the store operation left
\* to whoever administers the table.
DeleteDevice(sid) ==
  /\ DeviceOf(devices, sid) # {}
  /\ devices' = devices \ DeviceOf(devices, sid)
  /\ UNCHANGED <<env, input, users, blacklist, apikeys, messages, contacts, pending, last, hist>>

-----------------------------------------------------------------------------
(* Payload normalizer: saveMessage *)

\* the object the message fields are read from
MessageOfNoNestedData(messageData) ==
  IF Truthy(messageData) /\ Truthy(Get(messageData, "_data"))
    THEN Get(messageData, "_data")
  ELSE IF Truthy(messageData) /\ Truthy(Get(messageData, "message"))
    THEN Get(messageData, "message")
  ELSE messageData

MessageOf(messageData) ==
  IF Truthy(messageData) /\ Truthy(Get(messageData, "_data"))
    THEN Get(messageData, "_data")
  ELSE IF Truthy(messageData) /\ Truthy(Get(messageData, "message"))
          /\ Truthy(Get(Get(messageData, "message"), "_data"))
    THEN Get(Get(messageData, "message"), "_data")
  ELSE IF Truthy(messageData) /\ Truthy(Get(messageData, "message"))
    THEN Get(messageData, "message")
  ELSE messageData

\* the row prisma.messages.create is given
MessageRowUserOnly(deviceKey, messageData) ==
  LET message == MessageOf(messageData) IN
  [deviceKey |-> deviceKey,
   messageId |-> Or(Or(Get(Get(message, "id"), "_serialized"), Get(message, "id")), S(<<>>)),
   read |-> Or(Get(message, "ack"), N(0)),
   noTujuan |-> Or(Or(Get(Get(message, "to"), "user"), Get(message, "to")), Null),
   text |-> Or(Or(Get(message, "body"), Get(message, "text")), S(<<>>)),
   isGroup |-> Or(Get(message, "isGroup"), B(FALSE)),
   secure |-> Or(Get(message, "isSentCagPollCreation"), B(FALSE)),
   timestamp |-> Or(Or(Get(message, "t"), Get(message, "timestamp")), N(0)),
   from |-> Or(Get(Get(message, "from"), "user"), Null),
   fromMe |-> Or(Get(message, "fromMe"), B(FALSE)),
   to |-> Or(Or(Get(Get(message, "to"), "user"), Get(message, "to")), Null),
   type |-> Or(Get(message, "type"), S(<<>>))]

MessageRow(deviceKey, messageData) ==
  LET message == MessageOf(messageData) IN
  [deviceKey |-> deviceKey,
   messageId |-> Or(Or(Get(Get(message, "id"), "_serialized"), Get(message, "id")), S(<<>>)),
   read |-> Or(Get(message, "ack"), N(0)),
   noTujuan |-> Or(Or(Get(Get(message, "to"), "user"), Get(message, "to")), Null),
   text |-> Or(Or(Get(message, "body"), Get(message, "text")), S(<<>>)),
   isGroup |-> Or(Get(message, "isGroup"), B(FALSE)),
   secure |-> Or(Get(message, "isSentCagPollCreation"), B(FALSE)),
   timestamp |-> Or(Or(Get(message, "t"), Get(message, "timestamp")), N(0)),
   from |-> Or(Or(Get(Get(message, "from"), "user"), Get(message, "from")), Null),
   fromMe |-> Or(Get(message, "fromMe"), B(FALSE)),
   to |-> Or(Or(Get(Get(message, "to"), "user"), Get(message, "to")), Null),
   type |-> Or(Get(message, "type"), S(<<>>))]

\* saveMessage: one row appended, or an error thrown
SaveMessage(msgs, deviceKey, messageData, fault) ==
  IF fault THEN [ok |-> FALSE, messages |-> msgs]
  ELSE [ok |-> TRUE, messages |-> Append(msgs, MessageRow(deviceKey, messageData))]

-----------------------------------------------------------------------------
(* Payload normalizer: saveContact and saveContacts *)


\* s.match(/(\d+)@/): the leftmost run of digits that an "@" follows
DigitsBeforeAt(s) ==
  LET IsDigit(c) == c \in {"0", "1", "2", "3", "4", "5", "6", "7", "8", "9"}
      starts == {i \in 1..Len(s) :
                   \E j \in i..(Len(s) - 1) :
                     /\ \A k \in i..j : IsDigit(s[k])
                     /\ s[j + 1] = "@"}
  IN IF starts = {} THEN Undef
     ELSE LET i == CHOOSE x \in starts : \A y \in starts : x <= y
              j == CHOOSE x \in i..(Len(s) - 1) :
                     (\A k \in i..x : IsDigit(s[k])) /\ s[x + 1] = "@"
          IN S(SubSeq(s, i, j))

\* contact.id?._serialized || contact.id || contact.contactId || contact.number
ContactIdentity(contact) ==
  Or(Or(Or(Get(Get(contact, "id"), "_serialized"), Get(contact, "id")),
        Get(contact, "contactId")),
     Get(contact, "number"))

\* the contactId saveContact stores; uuid stands for the generated fallback
ResolveContactId(contactData) ==
  LET v == Or(ContactIdentity(contactData), Text("uuid")) IN ToStr(v)

ContactNumber(contactData) ==
  LET direct == Or(Or(Or(Or(Get(contactData, "number"), Get(contactData, "phoneNumber")),
                         Get(contactData, "phone")),
                      Get(Get(contactData, "id"), "user")),
                   Null)
      id == Get(contactData, "id")
  IN IF ~Truthy(direct) /\ Truthy(id) /\ id.t = "str"
        /\ DigitsBeforeAt(id.s) # Undef
     THEN DigitsBeforeAt(id.s)
     ELSE direct

RECURSIVE JoinSites(_)
\* website.map(site => string ? site : site?.url).filter(url => url).join(', ')
JoinSites(sites) ==
  IF sites = <<>> THEN <<>>
  ELSE LET site == Head(sites)
           url == IF site.t = "str" THEN site ELSE Get(site, "url")
           rest == JoinSites(Tail(sites))
       IN IF ~Truthy(url) THEN rest
          ELSE IF rest = <<>> THEN ToStr(url)
          ELSE ToStr(url) \o <<",", " ">> \o rest

ContactWebsite(contactData) ==
  LET w == Get(Get(contactData, "businessProfile"), "website") IN
  IF w.t = "arr" THEN Or(S(JoinSites(w.a)), Null)
  ELSE IF w.t = "str" THEN w
  ELSE Or(Or(w, Get(contactData, "website")), Null)

\* the data both contacts.update and contacts.create are given
ContactFields(deviceKey, contactData) ==
  LET bp == Get(contactData, "businessProfile") IN
  [deviceKey |-> deviceKey,
   contactName |-> Or(Or(Or(Get(contactData, "name"), Get(contactData, "contactName")),
                         Get(contactData, "pushname")), Null),
   isBusiness |-> Or(Get(contactData, "isBusiness"), B(FALSE)),
   isGroup |-> Or(Get(contactData, "isGroup"), B(FALSE)),
   isUser |-> Or(Get(contactData, "isUser"), B(TRUE)),
   name |-> Or(Or(Get(contactData, "name"), Get(contactData, "pushname")), Null),
   number |-> ContactNumber(contactData),
   serialized |-> Or(Or(Get(Get(contactData, "id"), "_serialized"), Get(contactData, "id")), Null),
   shortName |-> Or(Or(Get(contactData, "shortName"), Get(contactData, "shortname")), Null),
   businessProfile |-> Or(bp, Null),
   description |-> Or(Or(Get(bp, "description"), Get(contactData, "description")), Null),
   email |-> Or(Or(Get(bp, "email"), Get(contactData, "email")), Null),
   website |-> ContactWebsite(contactData),
   address |-> Or(Or(Get(bp, "address"), Get(contactData, "address")), Null),
   latitude |-> Or(Or(Get(bp, "latitude"), Get(contactData, "lat")), Null),
   longitude |-> Or(Or(Get(bp, "longitude"), Get(contactData, "lng")), Null),
   categories |-> Or(Or(Get(bp, "categories"), Get(contactData, "categories")), Null)]

\* saveContact: findUnique by contactId, then update that row or create one
SaveContactInsertOnly(rows, deviceKey, contactData, fault) ==
  LET contactId == ResolveContactId(contactData)
      fields == ContactFields(deviceKey, contactData)
  IN IF fault THEN [ok |-> FALSE, contacts |-> rows]
     ELSE [ok |-> TRUE, contacts |-> rows \cup {[contactId |-> contactId] @@ fields}]

SaveContact(rows, deviceKey, contactData, fault) ==
  LET contactId == ResolveContactId(contactData)
      fields == ContactFields(deviceKey, contactData)
      existing == {r \in rows : r.contactId = contactId}
  IN IF fault THEN [ok |-> FALSE, contacts |-> rows]
     ELSE IF existing # {}
     THEN [ok |-> TRUE,
           contacts |-> {IF r.contactId = contactId
                         THEN [contactId |-> r.contactId] @@ fields ELSE r : r \in rows}]
     ELSE [ok |-> TRUE, contacts |-> rows \cup {[contactId |-> contactId] @@ fields}]

\* the filter of saveContacts: the resolved identity includes "@c.us"
IsUserContactAlways(contact) == TRUE

IsUserContact(contact) ==
  LET contactId == Or(ContactIdentity(contact), S(<<>>)) IN
  Includes(ToStr(contactId), CUs)

RECURSIVE SaveContacts(_, _, _, _, _)
\* saveContacts: each contact in its own try block; faults holds the
\* positions whose save throws. The result is the table afterwards and the
\* list of the rows that were saved, [contacts, results]
SaveContacts(rows, deviceKey, contactsData, i, faults) ==
  IF i > Len(contactsData) THEN [contacts |-> rows, results |-> <<>>]
  ELSE LET contact == contactsData[i]
           saved == ~Throws(contact) /\ IsUserContact(contact) /\ i \notin faults
           next == IF saved THEN SaveContact(rows, deviceKey, contact, FALSE).contacts
                   ELSE rows
           rest == SaveContacts(next, deviceKey, contactsData, i + 1, faults)
       IN [contacts |-> rest.contacts,
           results |-> IF saved
                       THEN <<CHOOSE r \in next : r.contactId = ResolveContactId(contact)>>
                              \o rest.results
                       ELSE rest.results]

-----------------------------------------------------------------------------
(* Webhook ingestor: POST /whatsapp/webhook *)

Reply(status, body) == [status |-> status, body |-> body]
NoReply == Reply(0, Undef)
Answered(kind, reply, storeError) == [kind |-> kind, reply |-> reply, storeError |-> storeError]

StatusDataTypes ==
  {Text("qr"), Text("authenticated"), Text("ready"), Text("connecting"),
   Text("connected"), Text("disconnected")}

\* apiKey !== process.env.WHATSAPP_WEBHOOK_AUTH
WebhookSecretRejected(hdr) == hdr # env.WHATSAPP_WEBHOOK_AUTH

\* the switch without its case for qr: the initial value stays
DeviceStatusOfNoQr(dataType) ==
  CASE dataType = Text("ready") -> "ready"
    [] dataType = Text("authenticated") -> "authenticated"
    [] dataType = Text("qr") -> "unknown"
    [] dataType = Text("connecting") -> "connecting"
    [] dataType = Text("connected") -> "connected"
    [] dataType = Text("disconnected") -> "disconnected"
    [] OTHER -> dataType.s[1]

\* the switch that maps dataType to the status to store
DeviceStatusOf(dataType) ==
  CASE dataType = Text("ready") -> "ready"
    [] dataType = Text("authenticated") -> "authenticated"
    [] dataType = Text("qr") -> "qr"
    [] dataType = Text("connecting") -> "connecting"
    [] dataType = Text("connected") -> "connected"
    [] dataType = Text("disconnected") -> "disconnected"
    [] OTHER -> dataType.s[1]

\* the try block that updates the device status: [threw, error, devices];
\* threw says whether an error leaves the block, and its catch only logs
WebhookStatusUpdateAnyType(devs, sessionId, dataType, fault) ==
  IF Truthy(sessionId) /\ Truthy(dataType)
  THEN LET u == UpdateDeviceStatus(devs, sessionId.s, DeviceStatusOf(dataType), fault) IN
       [threw |-> FALSE, error |-> ~u.ok, devices |-> u.devices]
  ELSE [threw |-> FALSE, error |-> FALSE, devices |-> devs]

WebhookStatusUpdate(devs, sessionId, dataType, fault) ==
  IF Truthy(sessionId) /\ Truthy(dataType) /\ dataType \in StatusDataTypes
  THEN LET u == UpdateDeviceStatus(devs, sessionId.s, DeviceStatusOf(dataType), fault) IN
       [threw |-> FALSE, error |-> ~u.ok, devices |-> u.devices]
  ELSE [threw |-> FALSE, error |-> FALSE, devices |-> devs]

\* the logging switch reads data.device outside any try block
WebhookLogThrows(dataType, data) ==
  dataType \in {Text("device_linked"), Text("device_unlinked")} /\ Throws(data)

\* where the handler looks for message data
WebhookMessageData(requestBody) ==
  LET nested ==
        IF Truthy(Get(Get(requestBody, "outgoingData"), "message"))
          THEN Get(Get(requestBody, "outgoingData"), "message")
        ELSE IF Truthy(Get(requestBody, "message")) THEN Get(requestBody, "message")
        ELSE IF Truthy(Get(Get(requestBody, "data"), "message"))
          THEN Get(Get(requestBody, "data"), "message")
        ELSE IF Truthy(Get(requestBody, "data")) /\ ~Truthy(Get(requestBody, "outgoingData"))
          THEN Get(requestBody, "data")
        ELSE Null
  IN IF ~Truthy(nested) /\ Truthy(requestBody) /\ Keys(requestBody) # {}
        /\ (\/ Truthy(Get(requestBody, "_data"))
            \/ Truthy(Get(requestBody, "body"))
            \/ (Truthy(Get(requestBody, "id")) /\ Truthy(Get(requestBody, "from"))
                /\ Truthy(Get(requestBody, "to"))))
     THEN requestBody
     ELSE nested

\* the try block that saves the message: [threw, error, messages]
WebhookMessageSaveNoDevice(devs, msgs, sessionId, messageData, faultLookup, faultSave) ==
  IF Truthy(messageData) /\ Truthy(sessionId)
  THEN IF faultLookup THEN [threw |-> FALSE, error |-> TRUE, messages |-> msgs]
       ELSE LET device == GetDeviceBySessionId(devs, sessionId.s)
                sv == SaveMessage(msgs, IF Truthy(device) THEN Get(device, "key") ELSE 1,
                                  messageData, faultSave)
            IN [threw |-> FALSE, error |-> ~sv.ok, messages |-> sv.messages]
  ELSE [threw |-> FALSE, error |-> FALSE, messages |-> msgs]

WebhookMessageSave(devs, msgs, sessionId, messageData, faultLookup, faultSave) ==
  IF Truthy(messageData) /\ Truthy(sessionId)
  THEN IF faultLookup THEN [threw |-> FALSE, error |-> TRUE, messages |-> msgs]
       ELSE LET device == GetDeviceBySessionId(devs, sessionId.s) IN
            IF Truthy(device)
            THEN LET sv == SaveMessage(msgs, Get(device, "key"), messageData, faultSave) IN
                 [threw |-> FALSE, error |-> ~sv.ok, messages |-> sv.messages]
            ELSE [threw |-> FALSE, error |-> FALSE, messages |-> msgs]
  ELSE [threw |-> FALSE, error |-> FALSE, messages |-> msgs]

WebhookAck(dataType, sessionId) ==
  Reply(200, O([success |-> B(TRUE), message |-> Text("Webhook received successfully"),
                receivedType |-> dataType, sessionId |-> Or(sessionId, Null)]))
WebhookUnauthorized ==
  Reply(401, O([success |-> B(FALSE),
                message |-> Text("Unauthorized: Invalid authorization or API key")]))
\* setErrorHandler: an error without validation and statusCode
InternalServerError == Reply(500, O([error |-> Text("Internal Server Error")]))

\* the whole handler: [reply, devices, messages, storeError]
WebhookHandler(hdr, body, f) ==
  LET dataType == Get(body, "dataType")
      data == Get(body, "data")
      sessionId == Get(body, "sessionId")
      st == WebhookStatusUpdate(devices, sessionId, dataType, f.update)
      sv == WebhookMessageSave(st.devices, messages, sessionId, WebhookMessageData(body),
                               f.lookup, f.save)
  IN IF WebhookSecretRejected(hdr)
     THEN [reply |-> WebhookUnauthorized, devices |-> devices, messages |-> messages,
           storeError |-> FALSE]
     ELSE IF st.threw \/ WebhookLogThrows(dataType, data)
     THEN [reply |-> InternalServerError, devices |-> st.devices, messages |-> messages,
           storeError |-> st.error]
     ELSE IF sv.threw
     THEN [reply |-> InternalServerError, devices |-> st.devices, messages |-> sv.messages,
           storeError |-> TRUE]
     ELSE [reply |-> WebhookAck(dataType, sessionId), devices |-> st.devices,
           messages |-> sv.messages, storeError |-> st.error \/ sv.error]

WebhookFaults == [update : StoreFaults, lookup : StoreFaults, save : StoreFaults]
NoWebhookFault == [update |-> FALSE, lookup |-> FALSE, save |-> FALSE]

\* history: the status dataType last delivered, authenticated, for a
\* sessionId that had a Device at that time
SeenAfter(hdr, body) ==
  LET sessionId == Get(body, "sessionId")
      dataType == Get(body, "dataType")
  IN IF /\ ~WebhookSecretRejected(hdr)
        /\ dataType \in StatusDataTypes
        /\ Truthy(sessionId)
        /\ DeviceOf(devices, sessionId.s) # {}
     THEN [hist EXCEPT !.seen = [s \in DOMAIN hist.seen |->
                                  IF s = sessionId.s THEN dataType.s[1] ELSE hist.seen[s]]]
     ELSE hist

WebhookDeliver(hdr, body, f) ==
  LET out == WebhookHandler(hdr, body, f) IN
  /\ Len(out.messages) <= MaxMessages
  /\ devices' = out.devices
  /\ messages' = out.messages
  /\ last' = Answered("webhook", out.reply, out.storeError)
  /\ hist' = [SeenAfter(hdr, body) EXCEPT
                !.stored = IF out.messages # messages THEN @ \cup {body} ELSE @]
  /\ UNCHANGED <<env, input, users, blacklist, apikeys, contacts, pending>>

\* POST /webhook: answers whatever it is sent, and checks no header
CallbackPost(hdr, body) ==
  /\ last' = Answered("callback", Reply(200, O([success |-> B(TRUE), received |-> body])), FALSE)
  /\ UNCHANGED <<env, input, users, blacklist, apikeys, devices, messages, contacts, pending, hist>>

-----------------------------------------------------------------------------
(* Relay gateway: API-key authentication *)

\* the route schema requires the x-api-key header: validation runs before
\* the preHandler, and setErrorHandler answers a validation error with 400
HeadersValid(hdr) == hdr.t = "str"

ValidationError == Reply(400, O([error |-> Text("Validation Error")]))
ApiKeyRequired ==
  Reply(401, O([success |-> B(FALSE), message |-> Text("API key is required in x-api-key header")]))
ApiKeyInvalid ==
  Reply(401, O([success |-> B(FALSE), message |-> Text("Invalid or inactive API key")]))
ApiKeyAuthError ==
  Reply(500, O([success |-> B(FALSE),
                message |-> Text("Internal server error during API key authentication")]))

\* prisma.apikeys.findFirst({where: {token, status: true}})
ActiveKeyRecords(token) == {k \in apikeys : k.token = token /\ k.status}

\* apiKeyAuth: [reply, userId]; reply is NoReply when the request goes on
ApiKeyAuth(hdr, fault) ==
  IF ~Truthy(hdr) THEN [reply |-> ApiKeyRequired, userId |-> ""]
  ELSE IF fault THEN [reply |-> ApiKeyAuthError, userId |-> ""]
  ELSE IF ActiveKeyRecords(hdr.s) = {} THEN [reply |-> ApiKeyInvalid, userId |-> ""]
  ELSE [reply |-> NoReply, userId |-> (CHOOSE k \in ActiveKeyRecords(hdr.s) : TRUE).userId]

\* the handler's check of REMOTE_API_KEY and REMOTE_URL_API
ConfigError ==
  LET missing == IF ~Truthy(env.REMOTE_API_KEY) THEN "REMOTE_API_KEY" ELSE "REMOTE_URL_API" IN
  Reply(500, O([success |-> B(FALSE),
                message |-> S(<<"Configuration error: ", missing, " is not set">>)]))
RemoteConfigured == Truthy(env.REMOTE_API_KEY) /\ Truthy(env.REMOTE_URL_API)

ConnectivityError ==
  Reply(500, O([success |-> B(FALSE), message |-> Text("Failed to connect to remote API")]))

\* validation, apiKeyAuth and the handler up to its fetch: [reply, forward, userId]
RelayAdmitConfigFirst(op, sid, hdr, fault) ==
  IF ~HeadersValid(hdr) THEN [reply |-> ValidationError, forward |-> FALSE, userId |-> ""]
  ELSE IF ~RemoteConfigured THEN [reply |-> ConfigError, forward |-> FALSE, userId |-> ""]
  ELSE LET auth == ApiKeyAuth(hdr, fault) IN
       IF auth.reply # NoReply THEN [reply |-> auth.reply, forward |-> FALSE, userId |-> ""]
       ELSE [reply |-> NoReply, forward |-> TRUE, userId |-> auth.userId]

RelayAdmit(op, sid, hdr, fault) ==
  IF ~HeadersValid(hdr) THEN [reply |-> ValidationError, forward |-> FALSE, userId |-> ""]
  ELSE LET auth == ApiKeyAuth(hdr, fault) IN
       IF auth.reply # NoReply THEN [reply |-> auth.reply, forward |-> FALSE, userId |-> ""]
       ELSE IF ~RemoteConfigured THEN [reply |-> ConfigError, forward |-> FALSE, userId |-> ""]
       ELSE [reply |-> NoReply, forward |-> TRUE, userId |-> auth.userId]

RelayReceive(op, sid, hdr, fault) ==
  LET adm == RelayAdmit(op, sid, hdr, fault) IN
  /\ IF adm.forward
     THEN /\ BagCardinality(pending) < MaxInflight
          /\ pending' = pending (+) SetToBag({[op |-> op, sessionId |-> sid, userId |-> adm.userId,
                                               over |-> FALSE]})
          /\ last' = last
     ELSE /\ pending' = pending
          /\ last' = Answered("relay", adm.reply, adm.reply = ApiKeyAuthError)
  /\ UNCHANGED <<env, input, users, blacklist, apikeys, devices, messages, contacts, hist>>

-----------------------------------------------------------------------------
(* Relay gateway: GET /session/start/:sessionId after the fetch *)

\* what the caller receives of reply.code(status).send(body). The response
\* schema of a relay route is an object with additionalProperties for 200,
\* an object with the properties success and message only for 401 and 500,
\* and nothing for any other status. The payload is written by the schema
\* of its status: its entries (Object.entries: an array's entries are keyed
\* by its indices), the listed ones as their declared type, the others kept
\* only where the schema has additionalProperties.
Serialize(status, body) ==
  LET properties == IF status \in {401, 500} THEN {"success", "message"} ELSE {}
      additionalProperties == status = 200
      IndexKey(i) == <<"0", "1", "2", "3", "4", "5", "6", "7", "8", "9", "10", "11">>[i + 1]
      entries ==
        IF body.t = "obj" THEN [f \in Keys(body) |-> body.o[f]]
        ELSE IF body.t = "arr"
          THEN [k \in {IndexKey(i - 1) : i \in 1..Len(body.a)} |->
                  body.a[CHOOSE i \in 1..Len(body.a) : IndexKey(i - 1) = k]]
        ELSE <<>>
      AsDeclared(f, v) == IF f = "success" THEN B(Truthy(v)) ELSE S(ToStr(v))
  IN IF status \notin {200, 401, 500} \/ body.t = "str" THEN body
     ELSE O([f \in {g \in DOMAIN entries : g \in properties \/ additionalProperties} |->
               IF f \in properties THEN AsDeclared(f, entries[f]) ELSE entries[f]])

Send(status, body) == Reply(status, Serialize(status, body))

\* JSON.parse(text), or {raw: text}
ParseBody(presp) == IF presp.json THEN presp.data ELSE O([raw |-> S(presp.text)])

\* the fetch throws, or a property of a null body is read: the outer catch
RelayThrows(presp) == presp.failed \/ (presp.status = 200 /\ Throws(ParseBody(presp)))

\* response.status === 200 && data.success === true
StartSucceeded(presp) ==
  presp.status = 200 /\ Get(ParseBody(presp), "success") = B(TRUE)

\* the try block that creates the device: the outcomes [threw, error, devices]
\* it may leave; its catch only logs
StartSideEffectNoCatch(devs, req, presp, fault) ==
  IF StartSucceeded(presp) /\ req.userId # ""
  THEN {[threw |-> ~c.ok, error |-> ~c.ok, devices |-> c.devices]
        : c \in CreateDevice(devs, req.sessionId, req.userId, "", "connecting", fault)}
  ELSE {[threw |-> FALSE, error |-> FALSE, devices |-> devs]}

StartSideEffect(devs, req, presp, fault) ==
  IF StartSucceeded(presp) /\ req.userId # ""
  THEN {[threw |-> FALSE, error |-> ~c.ok, devices |-> c.devices]
        : c \in CreateDevice(devs, req.sessionId, req.userId, "", "connecting", fault)}
  ELSE {[threw |-> FALSE, error |-> FALSE, devices |-> devs]}

\* a start that hands the Device of its sessionId over to the caller
StartOutcomeTakeOver(req, presp, fault) ==
  IF RelayThrows(presp)
  THEN {[reply |-> ConnectivityError, devices |-> devices, storeError |-> FALSE]}
  ELSE {[reply |-> IF e.threw THEN ConnectivityError
                   ELSE Send(presp.status, ParseBody(presp)),
         devices |-> IF StartSucceeded(presp)
                     THEN {IF d.sessionId = req.sessionId THEN [d EXCEPT !.userId = req.userId]
                           ELSE d : d \in e.devices}
                     ELSE e.devices,
         storeError |-> e.error]
        : e \in StartSideEffect(devices, req, presp, fault)}

\* the handler after the fetch: the outcomes [reply, devices, storeError]
StartOutcome(req, presp, fault) ==
  IF RelayThrows(presp)
  THEN {[reply |-> ConnectivityError, devices |-> devices, storeError |-> FALSE]}
  ELSE {[reply |-> IF e.threw THEN ConnectivityError
                   ELSE Send(presp.status, ParseBody(presp)),
         devices |-> e.devices,
         storeError |-> e.error]
        : e \in StartSideEffect(devices, req, presp, fault)}

\* history: the start requests for sid still waiting are marked as having
\* overlapped a start that the provider answered with success
MarkOverlap(bag, sid) ==
  LET Marked(r) == IF r.op = "start" /\ r.sessionId = sid THEN [r EXCEPT !.over = TRUE] ELSE r
      CountIn(r) == IF r \in DOMAIN bag THEN bag[r] ELSE 0
      dom == {Marked(r) : r \in DOMAIN bag}
  IN
  [x \in dom |-> IF x.over /\ Marked(x) = x
                 THEN CountIn(x) + CountIn([x EXCEPT !.over = FALSE])
                 ELSE CountIn(x)]

StartRespond(req, presp, fault) ==
  /\ req.op = "start"
  /\ \E out \in StartOutcome(req, presp, fault) :
       /\ devices' = out.devices
       /\ last' = Answered("relay", out.reply, out.storeError)
  /\ IF ~RelayThrows(presp) /\ StartSucceeded(presp)
     THEN /\ pending' = MarkOverlap(pending (-) SetToBag({req}), req.sessionId)
          /\ hist' = [hist EXCEPT !.overlap = IF req.over THEN @ \cup {req.sessionId} ELSE @,
                                   !.assigned = @ \cup {d.key : d \in devices'}]
     ELSE /\ pending' = pending (-) SetToBag({req})
          /\ hist' = hist
  /\ UNCHANGED <<env, input, users, blacklist, apikeys, messages, contacts>>

-----------------------------------------------------------------------------
(* Relay gateway: GET /client/getContacts/:sessionId after the fetch *)

ResponseLimit == 10

IsObject(v) == v.t \in {"obj", "arr"}

\* response.status === 200 && (data.success === true || Array.isArray(data)
\*   || (data && typeof data === 'object'))
ContactsSucceeded(presp) ==
  LET data == ParseBody(presp) IN
  presp.status = 200 /\ (Get(data, "success") = B(TRUE) \/ IsObject(data))

\* the body sent back: a contact array longer than the limit is cut
LimitedResponse(data) ==
  IF data.t = "arr" /\ Len(data.a) > ResponseLimit
    THEN A(SubSeq(data.a, 1, ResponseLimit))
  ELSE IF data.t = "obj" /\ Get(data, "contacts").t = "arr"
          /\ Len(Get(data, "contacts").a) > ResponseLimit
    THEN O([data.o EXCEPT !.contacts = A(SubSeq(data.o.contacts.a, 1, ResponseLimit))])
  ELSE IF data.t = "obj" /\ Get(data, "data").t = "arr"
          /\ Len(Get(data, "data").a) > ResponseLimit
    THEN O([data.o EXCEPT !.data = A(SubSeq(data.o.data.a, 1, ResponseLimit))])
  ELSE data

\* the contact collection found in the provider's answer
ContactsDataLimited(data) ==
  IF LimitedResponse(data).t = "arr" THEN LimitedResponse(data).a
  ELSE IF Get(LimitedResponse(data), "contacts").t = "arr" THEN Get(LimitedResponse(data), "contacts").a
  ELSE IF Get(LimitedResponse(data), "data").t = "arr" THEN Get(LimitedResponse(data), "data").a
  ELSE <<>>

ContactsData(data) ==
  IF data.t = "arr" THEN data.a
  ELSE IF Get(data, "contacts").t = "arr" THEN Get(data, "contacts").a
  ELSE IF Get(data, "data").t = "arr" THEN Get(data, "data").a
  ELSE IF data.t = "obj" /\ Keys(data) # {}
          /\ (Truthy(Get(data, "id")) \/ Truthy(Get(data, "name")) \/ Truthy(Get(data, "number")))
    THEN <<data>>
  ELSE <<>>

\* whether a save of saveContacts threw: a position of faults that is saved
SaveThrew(contactsData, faults) ==
  \E i \in faults : i <= Len(contactsData) /\ ~Throws(contactsData[i])
                    /\ IsUserContact(contactsData[i])

\* a sync that keeps nothing when the save of one contact fails
ContactsSideEffectAllOrNothing(rows, devs, req, presp, faultLookup, faults) ==
  IF ContactsSucceeded(presp) /\ req.sessionId # <<>>
  THEN IF faultLookup THEN [threw |-> FALSE, error |-> TRUE, contacts |-> rows]
       ELSE LET device == GetDeviceBySessionId(devs, req.sessionId)
                contactsData == ContactsData(ParseBody(presp))
            IN IF Truthy(device) /\ Len(contactsData) > 0 /\ ~SaveThrew(contactsData, faults)
               THEN [threw |-> FALSE, error |-> FALSE,
                     contacts |-> SaveContacts(rows, Get(device, "key"), contactsData, 1,
                                              faults).contacts]
               ELSE [threw |-> FALSE, error |-> Truthy(device) /\ Len(contactsData) > 0,
                     contacts |-> rows]
  ELSE [threw |-> FALSE, error |-> FALSE, contacts |-> rows]

\* the try block that syncs the contacts: [threw, error, contacts]
ContactsSideEffect(rows, devs, req, presp, faultLookup, faults) ==
  IF ContactsSucceeded(presp) /\ req.sessionId # <<>>
  THEN IF faultLookup THEN [threw |-> FALSE, error |-> TRUE, contacts |-> rows]
       ELSE LET device == GetDeviceBySessionId(devs, req.sessionId)
                contactsData == ContactsData(ParseBody(presp))
            IN IF Truthy(device) /\ Len(contactsData) > 0
               THEN [threw |-> FALSE, error |-> SaveThrew(contactsData, faults),
                     contacts |-> SaveContacts(rows, Get(device, "key"), contactsData, 1,
                                              faults).contacts]
               ELSE [threw |-> FALSE, error |-> FALSE, contacts |-> rows]
  ELSE [threw |-> FALSE, error |-> FALSE, contacts |-> rows]

\* the handler after the fetch: [reply, contacts, storeError]
ContactsOutcome(req, presp, faultLookup, faults) ==
  IF RelayThrows(presp)
  THEN [reply |-> ConnectivityError, contacts |-> contacts, storeError |-> FALSE]
  ELSE LET e == ContactsSideEffect(contacts, devices, req, presp, faultLookup, faults) IN
       [reply |-> IF e.threw THEN ConnectivityError
                  ELSE Send(presp.status, LimitedResponse(ParseBody(presp))),
        contacts |-> e.contacts,
        storeError |-> e.error]

\* the positions of the provider's collection whose save may throw
ContactFaults(presp) ==
  IF env.storeFaulty /\ ~RelayThrows(presp)
  THEN LET list == ContactsData(ParseBody(presp)) IN
       SUBSET {i \in 1..Len(list) : ~Throws(list[i]) /\ IsUserContact(list[i])}
  ELSE {{}}

GetContactsRespond(req, presp, faultLookup, faults) ==
  LET out == ContactsOutcome(req, presp, faultLookup, faults) IN
  /\ req.op = "getContacts"
  /\ contacts' = out.contacts
  /\ last' = Answered("relay", out.reply, out.storeError)
  /\ pending' = pending (-) SetToBag({req})
  /\ UNCHANGED <<env, input, users, blacklist, apikeys, devices, messages, hist>>

\* the routes that relay the provider's answer and touch no table: session
\* status, qr, restart, terminate, terminateInactive, terminateAll and
\* client sendMessage
PassThroughOps ==
  {"status", "qr", "restart", "terminate", "terminateInactive", "terminateAll", "sendMessage"}

PassThroughRespond(req, presp) ==
  /\ req.op \in PassThroughOps
  /\ last' = Answered("relay",
                      IF presp.failed THEN ConnectivityError
                      ELSE Send(presp.status, ParseBody(presp)),
                      FALSE)
  /\ pending' = pending (-) SetToBag({req})
  /\ UNCHANGED <<env, input, users, blacklist, apikeys, devices, messages, contacts, hist>>

\* GET /session/qr/:sessionId/image after the fetch: response.json() throws
\* on a body that is not JSON; a qr field is drawn as a PNG image; any other
\* body is sent with the provider's status, a 200 by the schema of the JSON
\* content (success and qr)
QrImageRespond(req, presp) ==
  LET data == presp.data
      json == O([f \in Keys(data) \cap {"success", "qr"} |->
                   IF f = "success" THEN B(Truthy(data.o[f])) ELSE S(ToStr(data.o[f]))])
  IN /\ req.op = "qrImage"
     /\ last' = Answered("relay",
                         IF presp.failed \/ ~presp.json THEN ConnectivityError
                         ELSE IF Truthy(Get(data, "qr"))
                           THEN Reply(200, [t |-> "png", qr |-> Get(data, "qr")])
                         ELSE IF presp.status = 200 THEN Reply(200, json)
                         ELSE Send(presp.status, data),
                         FALSE)
     /\ pending' = pending (-) SetToBag({req})
     /\ UNCHANGED <<env, input, users, blacklist, apikeys, devices, messages, contacts, hist>>

-----------------------------------------------------------------------------
(* API key administration: PUT and DELETE /apikeys/:keyId *)

KeyNotFound ==
  Reply(404, O([success |-> B(FALSE),
                message |-> Text("API key not found or does not belong to you")]))
KeyServerError == Reply(500, O([success |-> B(FALSE), message |-> Text("Internal server error")]))
KeyUpdated ==
  Reply(200, O([success |-> B(TRUE), message |-> Text("API key status updated successfully")]))
KeyDeleted ==
  Reply(200, O([success |-> B(TRUE), message |-> Text("API key deleted successfully")]))

\* prisma.apikeys.findFirst({where: {id: keyId, userId: currentUser.id}})
OwnKey(keyId, userId) == {k \in apikeys : k.id = keyId /\ k.userId = userId}

\* PUT /apikeys/:keyId that finds the key by its id alone
ApiKeyPutAnyOwner(hdr, keyId, status, faultAuth, faultWrite) ==
  LET auth == ApiKeyAuth(hdr, faultAuth)
      admitted == auth.reply = NoReply
      found == admitted /\ ~faultWrite /\ {k \in apikeys : k.id = keyId} # {}
  IN
  /\ apikeys' = IF found
                THEN {IF k.id = keyId THEN [k EXCEPT !.status = status] ELSE k : k \in apikeys}
                ELSE apikeys
  /\ last' = Answered("apikeys",
                      IF ~admitted THEN auth.reply
                      ELSE IF faultWrite THEN KeyServerError
                      ELSE IF found THEN KeyUpdated ELSE KeyNotFound,
                      auth.reply = ApiKeyAuthError \/ (admitted /\ faultWrite))
  /\ UNCHANGED <<env, input, users, blacklist, devices, messages, contacts, pending, hist>>

\* PUT /apikeys/:keyId; faultWrite: the handler's findFirst or update throws
ApiKeyPut(hdr, keyId, status, faultAuth, faultWrite) ==
  LET auth == ApiKeyAuth(hdr, faultAuth)
      admitted == auth.reply = NoReply
      found == admitted /\ ~faultWrite /\ OwnKey(keyId, auth.userId) # {}
  IN
  /\ apikeys' = IF found
                THEN {IF k.id = keyId THEN [k EXCEPT !.status = status] ELSE k : k \in apikeys}
                ELSE apikeys
  /\ last' = Answered("apikeys",
                      IF ~admitted THEN auth.reply
                      ELSE IF faultWrite THEN KeyServerError
                      ELSE IF found THEN KeyUpdated ELSE KeyNotFound,
                      auth.reply = ApiKeyAuthError \/ (admitted /\ faultWrite))
  /\ UNCHANGED <<env, input, users, blacklist, devices, messages, contacts, pending, hist>>

\* DELETE /apikeys/:keyId; faultWrite: the handler's findFirst or delete throws
ApiKeyDelete(hdr, keyId, faultAuth, faultWrite) ==
  LET auth == ApiKeyAuth(hdr, faultAuth)
      admitted == auth.reply = NoReply
      found == admitted /\ ~faultWrite /\ OwnKey(keyId, auth.userId) # {}
  IN
  /\ apikeys' = IF found THEN {k \in apikeys : k.id # keyId} ELSE apikeys
  /\ last' = Answered("apikeys",
                      IF ~admitted THEN auth.reply
                      ELSE IF faultWrite THEN KeyServerError
                      ELSE IF found THEN KeyDeleted ELSE KeyNotFound,
                      auth.reply = ApiKeyAuthError \/ (admitted /\ faultWrite))
  /\ UNCHANGED <<env, input, users, blacklist, devices, messages, contacts, pending, hist>>

-----------------------------------------------------------------------------
(* The environment: configuration, requests and provider answers *)

Abc123 == <<"abc123">>
OtherSession == <<"s2">>
Sessions == {Abc123, OtherSession}

\* what fetch and response.text() hand to the handler
ProviderJson(status, data) == [failed |-> FALSE, status |-> status, json |-> TRUE, data |-> data, text |-> <<>>]
ProviderText(status, text) == [failed |-> FALSE, status |-> status, json |-> FALSE, data |-> Undef, text |-> text]
ProviderDown == [failed |-> TRUE, status |-> 0, json |-> FALSE, data |-> Undef, text |-> <<>>]

StartOk == ProviderJson(200, O([success |-> B(TRUE), message |-> Text("Session initiated successfully")]))
StartRefused == ProviderJson(422, O([success |-> B(FALSE), message |-> Text("Session already exists")]))

\* the request body of POST /whatsapp/webhook; a property that is undefined
\* is absent from the JSON
WebhookBody(sessionId, dataType, data) == O([sessionId |-> sessionId, dataType |-> dataType, data |-> data])

ScenarioFrom == <<"1", "1", "1">> \o CUs
ScenarioMessage ==
  O([id |-> O([_serialized |-> Text("msg1")]), from |-> S(ScenarioFrom),
     body |-> Text("hi"), t |-> N(1000)])
LinkedDevice == O([device |-> Text("phone")])

\* contacts as the provider lists them
UserContact(local, name) ==
  O([id |-> O([_serialized |-> S(<<local>> \o CUs), user |-> Text(local), server |-> Text("c.us")]),
     name |-> Text(name)])
PlainIdContact == O([id |-> S(<<"2", "2", "2">> \o CUs)])
GroupContact == O([id |-> O([_serialized |-> S(<<"3", "3", "3", "@", "g", ".", "u", "s">>)]), isGroup |-> B(TRUE)])
BroadcastContact == O([id |-> S(<<"status", "@", "broadcast">>)])
NumberContact == O([number |-> S(<<"4", "4", "4">>)])
BareIdContact == O([id |-> O([user |-> Text("555"), server |-> Text("c.us")])])

\* a collection one longer than the response limit: groups, each with an id
\* of its own, and a user contact at the end
LongList ==
  [i \in 1..(ResponseLimit + 1) |->
     IF i > ResponseLimit THEN PlainIdContact
     ELSE O([id |-> S(Digits(i) \o <<"@", "g", ".", "u", "s">>)])]

ContactLists ==
  {ProviderJson(200, A(<<UserContact("111", "Ann"), GroupContact, Null>>)),
   ProviderJson(200, O([contacts |-> A(<<PlainIdContact, BroadcastContact>>)])),
   ProviderJson(200, O([success |-> B(TRUE),
                        data |-> A(<<NumberContact, BareIdContact, UserContact("111", "Bob")>>)])),
   ProviderJson(200, PlainIdContact),
   ProviderJson(200, A(<<UserContact("111", "Ann"), UserContact("111", "Bob")>>)),
   ProviderJson(200, A(LongList)),
   ProviderJson(200, A(SubSeq(LongList, 1, ResponseLimit))),
   ProviderJson(200, O([contacts |-> A(LongList)])),
   ProviderJson(200, O([success |-> B(TRUE), data |-> A(LongList)])),
   ProviderJson(404, O([success |-> B(FALSE), message |-> Text("session_not_found")])),
   ProviderText(200, <<"<html>">>)}

\* table apikeys as registration and POST /apikeys left it
InitialKeys ==
  {[id |-> "key1", token |-> <<"k1">>, status |-> TRUE, userId |-> "u1"],
   [id |-> "key1b", token |-> <<"k1b">>, status |-> TRUE, userId |-> "u1"],
   [id |-> "key2", token |-> <<"k2">>, status |-> TRUE, userId |-> "u2"]}

NoHistory ==
  [seen |-> [s \in Sessions |-> ""], overlap |-> {}, stored |-> {}, assigned |-> {},
   issued |-> {}]

\* the tables and queues when the server has started
EmptyStore ==
  /\ apikeys = InitialKeys
  /\ devices = {}
  /\ messages = <<>>
  /\ contacts = {}
  /\ pending = EmptyBag
  /\ last = Answered("none", NoReply, FALSE)
  /\ hist = NoHistory
  /\ users = {[id |-> "u1", email |-> "a@x", password |-> "pw1", name |-> "a", verified |-> TRUE],
              [id |-> "u2", email |-> "b@x", password |-> "pw2", name |-> "b", verified |-> TRUE]}
  /\ blacklist = {}

\* process.env, and whether the record store may fail and generated keys
\* may collide in this run
Environment(secrets, faulty, clash) ==
  env \in [WHATSAPP_WEBHOOK_AUTH : secrets,
           REMOTE_API_KEY : {Text("remote-key")},
           REMOTE_URL_API : {Text("http://provider")},
           storeFaulty : faulty,
           keyClash : clash]

NoRequests ==
  [relayOps |-> {}, relayHeaders |-> {}, sessions |-> {},
   provider |-> [op \in {"start", "getContacts", "qrImage"} \cup PassThroughOps |-> {}],
   webhookHeaders |-> {}, webhookBodies |-> {},
   adminHeaders |-> {}, keyIds |-> {}, credentials |-> {}]

\* the steps the environment may take, over the requests of input
Receive ==
  \E op \in input.relayOps, sid \in input.sessions, hdr \in input.relayHeaders,
     fault \in StoreFaults :
    RelayReceive(op, sid, hdr, fault)
StartAnswered ==
  \E req \in DOMAIN pending, fault \in StoreFaults :
    \E presp \in input.provider[req.op] : StartRespond(req, presp, fault)
ContactsAnswered ==
  \E req \in DOMAIN pending, faultLookup \in StoreFaults :
    \E presp \in input.provider[req.op] :
      \E faults \in ContactFaults(presp) : GetContactsRespond(req, presp, faultLookup, faults)
PassThroughAnswered ==
  \E req \in DOMAIN pending :
    \E presp \in input.provider[req.op] : PassThroughRespond(req, presp)
QrImageAnswered ==
  \E req \in DOMAIN pending :
    \E presp \in input.provider[req.op] : QrImageRespond(req, presp)
Webhook ==
  \E hdr \in input.webhookHeaders, body \in input.webhookBodies, f \in WebhookFaults :
    WebhookDeliver(hdr, body, f)
Callback ==
  \E hdr \in input.webhookHeaders, body \in input.webhookBodies : CallbackPost(hdr, body)
KeyStatusChanged ==
  \E hdr \in input.adminHeaders, keyId \in input.keyIds, status \in BOOLEAN,
     faultAuth \in StoreFaults, faultWrite \in StoreFaults :
    ApiKeyPut(hdr, keyId, status, faultAuth, faultWrite)
KeyRemoved ==
  \E hdr \in input.adminHeaders, keyId \in input.keyIds,
     faultAuth \in StoreFaults, faultWrite \in StoreFaults :
    ApiKeyDelete(hdr, keyId, faultAuth, faultWrite)
DeviceDeleted == \E sid \in input.sessions : DeleteDevice(sid)

-----------------------------------------------------------------------------
(* Session lifecycle: start requests that overlap, and status deliveries, *)
(* with a record store that does not fail for reasons of its own          *)

LifecycleInput ==
  [NoRequests EXCEPT
     !.relayOps = {"start", "status"},
     !.relayHeaders = {Undef, Text("k1"), Text("unknown")},
     !.sessions = {Abc123},
     !.provider = [op \in DOMAIN NoRequests.provider |->
                     IF op = "getContacts" THEN {} ELSE {StartOk, StartRefused, ProviderDown}],
     !.webhookHeaders = {Text("secret"), Text("wrong")},
     !.webhookBodies = {WebhookBody(s, d, Undef) :
                          s \in {S(Abc123), Undef},
                          d \in StatusDataTypes \cup {Text("device_linked"), Text("message"),
                                                      Text("bogus"), Undef}}]

Init ==
  /\ Environment({Text("secret")}, {FALSE}, {FALSE})
  /\ input = LifecycleInput
  /\ EmptyStore

Next == Receive \/ StartAnswered \/ PassThroughAnswered \/ Webhook

Spec == Init /\ [][Next]_vars

\* C1: every start request carrying a valid API key that the provider
\* answers with HTTP 200 and success = true leaves exactly one Device for its
\* sessionId, and that Device's status is "connecting".
C1_StartLeavesOneConnectingDevice ==
  [][\A req \in DOMAIN pending :
       \A presp \in input.provider[req.op] :
         (StartRespond(req, presp, FALSE) /\ ~RelayThrows(presp) /\ StartSucceeded(presp))
           => \E d \in devices' : /\ DeviceOf(devices', req.sessionId) = {d}
                                  /\ d.status = "connecting"]_vars

\* C2: a Device's status is the dataType of the last authenticated delivery
\* for its sessionId whose dataType is one of qr, authenticated, ready,
\* connecting, connected, disconnected; before any such delivery it is the
\* status the Device was created with, and no other delivery changes it.
C2_StatusIsLastStatusDelivery ==
  \A d \in devices :
    d.status = IF hist.seen[d.sessionId] = "" THEN "connecting" ELSE hist.seen[d.sessionId]

\* a "ready" delivery was followed by an acknowledged delivery of a dataType
\* outside the list, and the Device is still "ready"
C2_Witness ==
  /\ \E d \in devices : d.sessionId = Abc123 /\ d.status = "ready"
  /\ hist.seen[Abc123] = "ready"
  /\ last.kind = "webhook"
  /\ last.reply = WebhookAck(Text("bogus"), S(Abc123))

\* C8: when two start requests for one sessionId overlap and the provider
\* answers both with success, exactly one Device has that sessionId.
C8_OverlappingStartsOneDevice ==
  \A sid \in hist.overlap : Cardinality(DeviceOf(devices, sid)) = 1

\* both overlapping start requests have been answered with the provider's 200
C8_Witness ==
  /\ Abc123 \in hist.overlap
  /\ last.kind = "relay"
  /\ last.reply = Reply(200, ParseBody(StartOk))
  /\ last.storeError

-----------------------------------------------------------------------------
(* Webhook ingestion: deliveries with and without data, to both callback  *)
(* routes, by a server started with or without WHATSAPP_WEBHOOK_AUTH      *)

IngestInput ==
  [NoRequests EXCEPT
     !.relayOps = {"start"},
     !.relayHeaders = {Text("k1")},
     !.sessions = {Abc123},
     !.provider = [op \in DOMAIN NoRequests.provider |->
                     IF op = "start" THEN {StartOk} ELSE {}],
     !.webhookHeaders = {Undef, Text("secret"), Text("wrong")},
     !.webhookBodies = {WebhookBody(S(Abc123), Text("ready"), Undef),
                        WebhookBody(S(Abc123), Text("qr"), O([qr |-> Text("2@abc")])),
                        WebhookBody(S(Abc123), Text("device_linked"), Undef),
                        WebhookBody(S(Abc123), Text("device_linked"), LinkedDevice),
                        WebhookBody(S(Abc123), Text("message"), ScenarioMessage)}]

InitIngest ==
  /\ Environment({Undef, Text("secret")}, {FALSE}, {FALSE})
  /\ input = IngestInput
  /\ EmptyStore

NextIngest == Receive \/ StartAnswered \/ Webhook \/ Callback

SpecIngest == InitIngest /\ [][NextIngest]_vars

\* C3: every webhook delivery that passes authentication is answered with
\* HTTP 200, whatever its payload shape.
C3_AuthenticatedDeliveryAnswered200 ==
  [][\A hdr \in input.webhookHeaders :
       \A body \in input.webhookBodies :
         (WebhookDeliver(hdr, body, NoWebhookFault) /\ ~WebhookSecretRejected(hdr))
           => last'.reply.status = 200]_vars

\* the header is absent, or differs from the configured shared secret
SecretMissingOrWrong(hdr) == hdr = Undef \/ hdr # env.WHATSAPP_WEBHOOK_AUTH

\* C4: a callback whose secret header is absent or differs from the
\* configured shared secret is answered with 401 and changes no Device,
\* Message or Contact, on every callback route and with or without a
\* configured secret.
C4_BadSecretRejected ==
  [][\A hdr \in input.webhookHeaders :
       \A body \in input.webhookBodies :
         (/\ SecretMissingOrWrong(hdr)
          /\ WebhookDeliver(hdr, body, NoWebhookFault) \/ CallbackPost(hdr, body))
           => /\ last'.reply.status = 401
              /\ UNCHANGED <<devices, messages, contacts>>]_vars

\* the delivery names a sessionId that no Device has
UnknownSession(body) ==
  Truthy(Get(body, "sessionId")) /\ DeviceOf(devices, Get(body, "sessionId").s) = {}

\* C5: an authenticated webhook delivery whose sessionId matches no Device
\* creates no Device, Message or Contact and is answered with HTTP 200.
C5_UnknownSessionIgnored ==
  [][\A hdr \in input.webhookHeaders :
       \A body \in input.webhookBodies :
         (/\ WebhookDeliver(hdr, body, NoWebhookFault)
          /\ ~WebhookSecretRejected(hdr)
          /\ UnknownSession(body))
           => /\ UNCHANGED <<devices, messages, contacts>>
              /\ last'.reply.status = 200]_vars

\* the scenario's delivery: Device abc123 is ready and the message arrives
\* with the shared secret
ScenarioDelivery ==
  /\ \E d \in devices : d.sessionId = Abc123 /\ d.status = "ready"
  /\ hist.seen[Abc123] = "ready"
  /\ env.WHATSAPP_WEBHOOK_AUTH = Text("secret")
  /\ WebhookDeliver(Text("secret"), WebhookBody(S(Abc123), Text("message"), ScenarioMessage),
                    NoWebhookFault)

\* the delivery stored exactly one more Message, with these fields
ScenarioStored(from) ==
  /\ Len(messages') = Len(messages) + 1
  /\ SubSeq(messages', 1, Len(messages)) = messages
  /\ LET m == messages'[Len(messages')] IN
       /\ m.messageId = Text("msg1")
       /\ m.from = from
       /\ m.text = Text("hi")
       /\ m.timestamp = N(1000)
       /\ \E d \in devices : d.sessionId = Abc123 /\ m.deviceKey = d.key
  /\ last'.reply.status = 200

\* C9 as stated: after start of abc123 and a ready delivery, the message
\* {id:{_serialized:"msg1"}, from:"111@c.us", body:"hi", t:1000} is stored as
\* exactly one Message with messageId "msg1", from "111", text "hi",
\* timestamp 1000 and the Device's key.
C9_ScenarioStoresUserPart ==
  [][ScenarioDelivery => ScenarioStored(S(<<"1", "1", "1">>))]_vars

\* C9 amended: the Message is stored with from "111@c.us", the string as it
\* was delivered; the other fields are as stated.
C9_ScenarioStoresSender ==
  [][ScenarioDelivery => ScenarioStored(S(ScenarioFrom))]_vars

\* the scenario has run: Device abc123 is ready and holds the stored message
C9_Witness ==
  /\ \E d \in devices : d.sessionId = Abc123 /\ d.status = "ready"
  /\ Len(messages) = 1
  /\ messages[1].messageId = Text("msg1")
  /\ last.kind = "webhook"
  /\ last.reply = WebhookAck(Text("message"), S(Abc123))

-----------------------------------------------------------------------------
(* API keys: relay calls while keys are deactivated, reactivated and deleted *)

KeysInput ==
  [NoRequests EXCEPT
     !.relayOps = {"start"},
     !.relayHeaders = {Undef, S(<<>>), Text("k1"), Text("unknown")},
     !.sessions = {Abc123},
     !.provider = [op \in DOMAIN NoRequests.provider |->
                     IF op = "start" THEN {StartOk, StartRefused} ELSE {}],
     !.adminHeaders = {Text("k1b"), Text("k2")},
     !.keyIds = {"key1"}]

InitKeys ==
  /\ Environment({Text("secret")}, {FALSE}, {FALSE})
  /\ input = KeysInput
  /\ EmptyStore

NextKeys == Receive \/ StartAnswered \/ KeyStatusChanged \/ KeyRemoved

SpecKeys == InitKeys /\ [][NextKeys]_vars

\* the header names a key that exists and is active
KeyPresentAndActive(hdr) ==
  hdr.t = "str" /\ \E k \in apikeys : k.token = hdr.s /\ k.status

\* C6: a relay request whose API key is missing, unknown or inactive, also
\* one accepted earlier and deactivated or deleted since, is answered with
\* 401, is not forwarded to the provider and changes no Device or Contact.
C6_BadKeyAnswered401 ==
  [][\A op \in input.relayOps, sid \in input.sessions, hdr \in input.relayHeaders :
       (RelayReceive(op, sid, hdr, FALSE) /\ ~KeyPresentAndActive(hdr))
         => /\ last'.reply.status = 401
            /\ pending' = pending
            /\ UNCHANGED <<devices, contacts>>]_vars

-----------------------------------------------------------------------------
(* Store failures: every store operation of a handler may throw *)

FaultsInput ==
  [NoRequests EXCEPT
     !.relayOps = {"start", "getContacts"},
     !.relayHeaders = {Text("k1")},
     !.sessions = {Abc123},
     !.provider = [op \in DOMAIN NoRequests.provider |->
                     IF op = "start" THEN {StartOk}
                     ELSE IF op = "getContacts"
                       THEN {ProviderJson(200, A(<<PlainIdContact>>))}
                     ELSE {}],
     !.webhookHeaders = {Text("secret")},
     !.webhookBodies = {WebhookBody(S(Abc123), Text("ready"), Undef),
                        WebhookBody(S(Abc123), Text("message"), ScenarioMessage)}]

InitFaults ==
  /\ Environment({Text("secret")}, {TRUE}, {FALSE})
  /\ input = FaultsInput
  /\ EmptyStore

NextFaults == Receive \/ StartAnswered \/ ContactsAnswered \/ Webhook

SpecFaults == InitFaults /\ [][NextFaults]_vars

\* what the primary flow answers: the provider's answer relayed, or the
\* webhook acknowledgement
RelayedReply(op, presp) ==
  IF RelayThrows(presp) THEN ConnectivityError
  ELSE Send(presp.status,
            IF op = "getContacts" THEN LimitedResponse(ParseBody(presp)) ELSE ParseBody(presp))

\* C7: a failure of a store operation done as a side effect (Device creation
\* on start, Contact sync on getContacts, status or Message write on
\* webhook) never changes the reply: no handler step in which a store
\* operation may fail answers anything but the provider's answer relayed,
\* or the webhook's 200 acknowledgement.
C7_StoreFailureKeepsReply ==
  [][/\ \A req \in DOMAIN pending :
          \A presp \in input.provider[req.op] :
            (last'.kind = "relay" /\ last'.reply # RelayedReply(req.op, presp))
              => /\ \A fault \in BOOLEAN : ~StartRespond(req, presp, fault)
                 /\ \A faultLookup \in BOOLEAN, faults \in ContactFaults(presp) :
                      ~GetContactsRespond(req, presp, faultLookup, faults)
     /\ \A hdr \in input.webhookHeaders, body \in input.webhookBodies :
          (/\ last'.kind = "webhook"
           /\ last'.reply # WebhookAck(Get(body, "dataType"), Get(body, "sessionId")))
            => \A f \in WebhookFaults : ~WebhookDeliver(hdr, body, f)]_vars

\* a store operation of the last handler threw, and its caller got a 200
C7_Witness ==
  /\ env.storeFaulty
  /\ last.storeError
  /\ last.reply.status = 200
  /\ last.kind \in {"relay", "webhook"}

-----------------------------------------------------------------------------
(* Contact sync: getContacts over the shapes a provider lists contacts in *)

ContactsInput ==
  [NoRequests EXCEPT
     !.relayOps = {"start", "getContacts"},
     !.relayHeaders = {Text("k1")},
     !.sessions = {Abc123},
     !.provider = [op \in DOMAIN NoRequests.provider |->
                     IF op = "start" THEN {StartOk}
                     ELSE IF op = "getContacts" THEN ContactLists
                     ELSE {}]]

InitContacts ==
  /\ Environment({Text("secret")}, {FALSE}, {FALSE})
  /\ input = ContactsInput
  /\ EmptyStore

NextContacts == Receive \/ StartAnswered \/ ContactsAnswered

SpecContacts == InitContacts /\ [][NextContacts]_vars

\* C10: every stored Contact has a contactId that contains "@c.us"; a
\* provider contact whose resolved identifier does not contain it is not
\* stored.
C10_StoredContactsAreUsers ==
  \A r \in contacts : Includes(r.contactId, CUs)

\* a list holding a user contact, a group contact and a null entry was
\* synced, and the user contact is stored
C10_Witness ==
  /\ last.kind = "relay"
  /\ last.reply = Send(200, A(<<UserContact("111", "Ann"), GroupContact, Null>>))
  /\ \E r \in contacts : r.contactId = <<"111">> \o CUs

\* the contactIds of a table
ContactIds(rows) == {r.contactId : r \in rows}

\* the positions of a provider collection that hold a user contact
UserPositions(list) ==
  {i \in 1..Len(list) : ~Throws(list[i]) /\ IsUserContact(list[i])}

\* a sync of the provider's collection for a sessionId that has a Device,
\* with no store failure
SyncStep(req, presp) ==
  /\ GetContactsRespond(req, presp, FALSE, {})
  /\ ~RelayThrows(presp)
  /\ ContactsSucceeded(presp)
  /\ DeviceOf(devices, req.sessionId) # {}

\* C11: the upsert by contactId is idempotent: after a sync there is one
\* Contact row per contactId ingested so far, also when a contact came twice
\* in one sync or in two syncs, and the row of each contact of the sync
\* holds the field values of its latest occurrence.
C11_ContactUpsertIdempotent ==
  [][\A req \in DOMAIN pending :
       \A presp \in input.provider[req.op] :
         SyncStep(req, presp) =>
           LET list == ContactsData(ParseBody(presp))
               userAt == UserPositions(list)
               key == (CHOOSE d \in DeviceOf(devices, req.sessionId) : TRUE).key
           IN /\ ContactIds(contacts') =
                   ContactIds(contacts) \cup {ResolveContactId(list[i]) : i \in userAt}
              /\ Cardinality(contacts') = Cardinality(ContactIds(contacts'))
              /\ \A i \in userAt :
                   (\A j \in userAt :
                      ResolveContactId(list[j]) = ResolveContactId(list[i]) => j <= i)
                     => ([contactId |-> ResolveContactId(list[i])]
                           @@ ContactFields(key, list[i])) \in contacts']_vars

\* one sync brought contact 111 twice, as Ann and then as Bob: one row, Bob
C11_Witness ==
  /\ last.kind = "relay"
  /\ last.reply = Send(200, A(<<UserContact("111", "Ann"), UserContact("111", "Bob")>>))
  /\ Cardinality({r \in contacts : r.contactId = <<"111">> \o CUs}) = 1
  /\ \A r \in contacts : r.contactId = <<"111">> \o CUs => r.contactName = Text("Bob")

-----------------------------------------------------------------------------
(* Message shapes: the same message fields delivered in the shapes the *)
(* handler and saveMessage accept                                       *)

\* message fields as a provider sends them
MessageFields ==
  {[id |-> O([_serialized |-> Text("msg1")]), from |-> S(ScenarioFrom),
    body |-> Text("hi"), t |-> N(1000)],
   [id |-> Text("msg2"), from |-> O([user |-> Text("111")]), to |-> O([user |-> Text("222")]),
    text |-> Text("hi"), timestamp |-> N(5), ack |-> N(2), type |-> Text("chat"),
    fromMe |-> B(TRUE), isGroup |-> B(TRUE)],
   [id |-> Text("msg3"), from |-> Text("a"), to |-> Text("b")],
   [from |-> Text("a"), text |-> Text("x")],
   [body |-> S(<<>>), t |-> N(0), ack |-> N(0)]}

\* the shapes a delivery may carry the fields F in
BareData(F) == WebhookBody(S(Abc123), Text("message"), O(F))
BareBody(F) == O([sessionId |-> S(Abc123), dataType |-> Text("message")] @@ F)
NestedBody(F) ==
  O([sessionId |-> S(Abc123), dataType |-> Text("message"), message |-> O([_data |-> O(F)])])
NestedData(F) ==
  WebhookBody(S(Abc123), Text("message"), O([message |-> O([message |-> O([_data |-> O(F)])])]))

ShapesInput(F) ==
  [NoRequests EXCEPT
     !.relayOps = {"start"},
     !.relayHeaders = {Text("k1")},
     !.sessions = {Abc123},
     !.provider = [op \in DOMAIN NoRequests.provider |->
                     IF op = "start" THEN {StartOk} ELSE {}],
     !.webhookHeaders = {Text("secret")},
     !.webhookBodies = {BareData(F), BareBody(F), NestedBody(F), NestedData(F)}]

InitShapes ==
  /\ Environment({Text("secret")}, {FALSE}, {FALSE})
  /\ \E F \in MessageFields : input = ShapesInput(F)
  /\ EmptyStore

NextShapes == Receive \/ StartAnswered \/ Webhook

SpecShapes == InitShapes /\ [][NextShapes]_vars

\* the columns of a Message the normalizer fills from the payload
MessageColumns(m) ==
  [messageId |-> m.messageId, from |-> m.from, to |-> m.to, text |-> m.text,
   type |-> m.type, timestamp |-> m.timestamp, isGroup |-> m.isGroup,
   fromMe |-> m.fromMe, read |-> m.read]

\* C12: the same message fields F, delivered nested as {message: {_data: F}}
\* or bare, are stored as Messages that are equal column for column.
C12_ShapesNormalizeAlike ==
  \A i, j \in 1..Len(messages) : MessageColumns(messages[i]) = MessageColumns(messages[j])

\* rows were stored from a bare and from a nested delivery of the fields of
\* the second message, and the row carries them
C12_Witness ==
  /\ \E F \in MessageFields :
       /\ "to" \in DOMAIN F /\ F.to = O([user |-> Text("222")])
       /\ hist.stored = {BareData(F), NestedData(F)}
  /\ Len(messages) = 2
  /\ messages[1].messageId = Text("msg2")
  /\ messages[1].from = Text("111")

\* the first ten entries of an array, in their order
FirstTen(arr) == A([i \in 1..(IF Len(arr.a) < 10 THEN Len(arr.a) ELSE 10) |-> arr.a[i]])

\* the provider's body with its contact array cut to its first ten entries
CutBody(data) ==
  IF data.t = "arr" THEN FirstTen(data)
  ELSE IF data.t = "obj" /\ "contacts" \in DOMAIN data.o /\ data.o.contacts.t = "arr"
    THEN O([f \in DOMAIN data.o |-> IF f = "contacts" THEN FirstTen(data.o[f]) ELSE data.o[f]])
  ELSE IF data.t = "obj" /\ "data" \in DOMAIN data.o /\ data.o.data.t = "arr"
    THEN O([f \in DOMAIN data.o |-> IF f = "data" THEN FirstTen(data.o[f]) ELSE data.o[f]])
  ELSE data

\* C13: a getContacts relay for a sessionId without a Device writes no
\* Contact and answers with the provider's status and its body, the contact
\* array cut to its first 10 entries in order, 10 or fewer left unchanged.
\* Violated: a body that is an array at the top level is written by the
\* object schema of status 200 and reaches the caller as an object keyed by
\* the indices.
C13_NoDeviceStillTruncates ==
  [][\A req \in DOMAIN pending :
       \A presp \in input.provider[req.op] :
         (/\ GetContactsRespond(req, presp, FALSE, {})
          /\ ~RelayThrows(presp)
          /\ DeviceOf(devices, req.sessionId) = {})
           => /\ contacts' = contacts
              /\ last'.reply = Reply(presp.status, CutBody(ParseBody(presp)))]_vars

-----------------------------------------------------------------------------
(* Contact sync while the store may fail *)

SyncInput ==
  [NoRequests EXCEPT
     !.relayOps = {"getContacts"},
     !.relayHeaders = {Text("k1")},
     !.sessions = {Abc123, OtherSession},
     !.provider = [op \in DOMAIN NoRequests.provider |->
                     IF op = "getContacts"
                       THEN {ProviderJson(200, A(LongList)),
                             ProviderJson(200, O([contacts |-> A(LongList)])),
                             ProviderJson(200, O([success |-> B(TRUE), data |-> A(LongList)])),
                             ProviderJson(200, UserContact("111", "Ann"))}
                     ELSE {}]]

\* the server starts on a store that holds the Device an earlier start
\* created for abc123
InitSync ==
  /\ Environment({Text("secret")}, {TRUE}, {FALSE})
  /\ input = SyncInput
  /\ apikeys = InitialKeys
  /\ devices \in {c.devices : c \in {x \in CreateDevice({}, Abc123, "u1", "", "connecting", FALSE) : x.ok}}
  /\ messages = <<>>
  /\ contacts = {}
  /\ pending = EmptyBag
  /\ last = Answered("none", NoReply, FALSE)
  /\ hist = NoHistory
  /\ users = {[id |-> "u1", email |-> "a@x", password |-> "pw1", name |-> "a", verified |-> TRUE],
              [id |-> "u2", email |-> "b@x", password |-> "pw2", name |-> "b", verified |-> TRUE]}
  /\ blacklist = {}

NextSync == Receive \/ ContactsAnswered

SpecSync == InitSync /\ [][NextSync]_vars

\* the provider's full collection: the body itself, the array under
\* contacts or under data, or the body as the one contact it describes
FullCollection(data) ==
  IF data.t = "arr" THEN data.a
  ELSE IF "contacts" \in DOMAIN data.o /\ data.o.contacts.t = "arr" THEN data.o.contacts.a
  ELSE IF "data" \in DOMAIN data.o /\ data.o.data.t = "arr" THEN data.o.data.a
  ELSE IF DOMAIN data.o \cap {"id", "name", "number"} # {} THEN <<data>>
  ELSE <<>>

\* C14: a getContacts relay answered 200 for a sessionId that has a Device
\* upserts every "@c.us" contact of the provider's full collection under the
\* Device's key, those beyond the 10 returned included, when no store
\* operation fails; and whether the sync succeeds, fails or is skipped, the
\* caller is sent the same body, the collection cut to 10.
C14_SyncsAllReturnsTen ==
  [][\A req \in DOMAIN pending :
       \A presp \in input.provider[req.op] :
         (req.op = "getContacts" /\ presp.status = 200 /\ ~RelayThrows(presp)
          /\ pending' = pending (-) SetToBag({req})
          /\ DeviceOf(devices, req.sessionId) # {})
           => LET list == FullCollection(ParseBody(presp))
                  key == (CHOOSE d \in DeviceOf(devices, req.sessionId) : TRUE).key
              IN /\ GetContactsRespond(req, presp, FALSE, {})
                      => \A i \in UserPositions(list) :
                           \E r \in contacts' : /\ r.contactId = ResolveContactId(list[i])
                                                /\ r.deviceKey = key
                 /\ last'.reply # Send(200, CutBody(ParseBody(presp)))
                      => \A faultLookup \in BOOLEAN, faults \in ContactFaults(presp) :
                           ~GetContactsRespond(req, presp, faultLookup, faults)]_vars

\* the eleventh contact of the collection is stored under the Device's key
\* and the caller was sent the first ten
C14_Witness ==
  /\ last.kind = "relay"
  /\ last.reply = Send(200, O([contacts |-> A(SubSeq(LongList, 1, 10))]))
  /\ \E d \in devices, r \in contacts :
       /\ d.sessionId = Abc123
       /\ r.deviceKey = d.key
       /\ r.contactId = ResolveContactId(LongList[11])

-----------------------------------------------------------------------------
(* Relay gateway: what the caller is sent, with and without the remote
   configuration *)

RelayInput ==
  [NoRequests EXCEPT
     !.relayOps = {"start", "status", "terminate", "qrImage"},
     !.relayHeaders = {Text("k1"), Text("unknown")},
     !.sessions = {Abc123},
     !.provider = [op \in DOMAIN NoRequests.provider |->
                     IF op = "getContacts" THEN {}
                     ELSE LET error == ProviderJson(500, O([success |-> B(FALSE),
                                                             error |-> Text("Session not ready")]))
                              html == ProviderText(502, <<"<html>Bad Gateway</html>">>)
                              qr == ProviderJson(200, O([success |-> B(TRUE), qr |-> Text("2@abc")]))
                          IN IF op = "qrImage" THEN {qr, html, ProviderDown}
                             ELSE {StartOk, error, html, ProviderDown}]]

InitRelay ==
  /\ env \in [WHATSAPP_WEBHOOK_AUTH : {Text("secret")},
              REMOTE_API_KEY : {Undef, Text("remote-key")},
              REMOTE_URL_API : {Undef, S(<<>>), Text("http://provider")},
              storeFaulty : {FALSE},
              keyClash : {FALSE}]
  /\ input = RelayInput
  /\ EmptyStore

NextRelay == Receive \/ StartAnswered \/ PassThroughAnswered \/ QrImageAnswered

SpecRelay == InitRelay /\ [][NextRelay]_vars

\* C15: for every relay operation other than qr-image and getContacts, when
\* the provider answers with a JSON body the caller receives the provider's
\* status code and that body, no field added, removed or changed, a
\* provider-reported failure included.
\* Violated: a provider answer with status 500 (or 401) is written by the
\* response schema of that status, which keeps success and message only.
C15_RelayedVerbatim ==
  [][\A req \in DOMAIN pending :
       \A presp \in input.provider[req.op] :
         (/\ req.op \notin {"qrImage", "getContacts"}
          /\ ~presp.failed /\ presp.json
          /\ (StartRespond(req, presp, FALSE) \/ PassThroughRespond(req, presp)))
           => last'.reply = Reply(presp.status, presp.data)]_vars

\* the remote endpoint or the provider credential is not configured
NotConfigured == ~Truthy(env.REMOTE_API_KEY) \/ ~Truthy(env.REMOTE_URL_API)

\* C16: while the remote endpoint or the provider credential is not
\* configured, a relay request with a valid API key is answered 500 with a
\* configuration error, which is neither the 401 of the key check nor the
\* 500 connectivity error; no call to the provider is put in flight and no
\* table is written. The same request with a key that is not valid is
\* answered 401.
C16_ConfigurationError ==
  [][\A op \in input.relayOps, sid \in input.sessions, hdr \in input.relayHeaders :
       (NotConfigured /\ RelayReceive(op, sid, hdr, FALSE))
         => IF \E k \in apikeys : k.token = hdr.s /\ k.status
            THEN /\ last'.kind = "relay"
                 /\ last'.reply.status = 500
                 /\ Get(last'.reply.body, "success") = B(FALSE)
                 /\ Get(last'.reply.body, "message").s[1] = "Configuration error: "
                 /\ last'.reply # ConnectivityError
                 /\ pending' = pending
                 /\ <<apikeys', devices', messages', contacts'>>
                      = <<apikeys, devices, messages, contacts>>
            ELSE last'.reply.status = 401]_vars

\* the provider credential is set, the remote endpoint is not, and a request
\* with a valid key was answered with the configuration error
C16_Witness ==
  /\ Truthy(env.REMOTE_API_KEY)
  /\ ~Truthy(env.REMOTE_URL_API)
  /\ last.kind = "relay"
  /\ last.reply.status = 500
  /\ Get(last.reply.body, "message") = S(<<"Configuration error: ", "REMOTE_URL_API", " is not set">>)
  /\ pending = EmptyBag
  /\ devices = {}

\* C18: for every relay operation, qr-image included, a provider body that
\* is not JSON reaches the caller as {raw: <the body text>} with the
\* provider's status code.
\* Violated: the qr-image handler reads the body with response.json(), which
\* throws on such a body, and answers with the connectivity error.
C18_NonJsonKeptRaw ==
  [][\A req \in DOMAIN pending :
       \A presp \in input.provider[req.op] :
         (/\ ~presp.failed /\ ~presp.json
          /\ \/ StartRespond(req, presp, FALSE)
             \/ PassThroughRespond(req, presp)
             \/ QrImageRespond(req, presp))
           => last'.reply = Reply(presp.status, O([raw |-> S(presp.text)]))]_vars

-----------------------------------------------------------------------------
(* Relay gateway: a provider that never answers *)

\* The fetch of a relay handler is given the url and the headers only, no
\* signal and no timer: the handler goes on when the provider answers or
\* the fetch fails. Here the provider answers start and terminate calls and
\* never answers a status call.
InitLive ==
  /\ Environment({Text("secret")}, {FALSE}, {FALSE})
  /\ input = [NoRequests EXCEPT
                !.relayOps = {"start", "status", "terminate"},
                !.relayHeaders = {Text("k1")},
                !.sessions = {Abc123},
                !.provider = [op \in DOMAIN NoRequests.provider |->
                                IF op \in {"start", "terminate"} THEN {StartOk, ProviderDown}
                                ELSE {}]]
  /\ EmptyStore

NextLive == Receive \/ StartAnswered \/ PassThroughAnswered

\* every answer of the provider and every failure of a fetch is handled, and
\* from some time on no new request arrives
SpecLive ==
  /\ InitLive
  /\ [][NextLive]_vars
  /\ WF_vars(StartAnswered)
  /\ WF_vars(PassThroughAnswered)
  /\ <>[][BagCardinality(pending') <= BagCardinality(pending)]_vars

\* C17: every relay request that passed the key check is answered in the
\* end, by the provider's answer or, if the provider never answers, by the
\* connectivity error once a bounded timeout has cut the call: no request
\* stays in flight for ever.
\* Violated: a call the provider never answers stays in flight.
C17_EveryRequestAnswered ==
  (pending # EmptyBag) ~> (pending = EmptyBag)

-----------------------------------------------------------------------------
(* Devices: what creates one, what deletes one, and the keys they get *)

\* the server starts on a store that holds the Device an earlier start
\* created for another session; abc123 is started and terminated, the
\* provider reports it as disconnected, Math.random may draw a key that is
\* taken, and the table's administrator may delete the Device of abc123
InitDevices ==
  /\ Environment({Text("secret")}, {FALSE}, {TRUE})
  /\ input = [NoRequests EXCEPT
                !.relayOps = {"start", "terminate", "terminateAll"},
                !.relayHeaders = {Text("k1")},
                !.sessions = {Abc123},
                !.provider = [op \in DOMAIN NoRequests.provider |->
                                IF op = "start" THEN {StartOk, StartRefused}
                                ELSE IF op \in {"terminate", "terminateAll"}
                                  THEN {ProviderJson(200, O([success |-> B(TRUE),
                                                             message |-> Text("Logged out successfully")]))}
                                ELSE {}],
                !.webhookHeaders = {Text("secret")},
                !.webhookBodies = {WebhookBody(S(Abc123), Text("disconnected"), Undef)}]
  /\ apikeys = InitialKeys
  /\ devices \in {c.devices : c \in {x \in CreateDevice({}, OtherSession, "u2", "", "connecting", FALSE) : x.ok}}
  /\ messages = <<>>
  /\ contacts = {}
  /\ pending = EmptyBag
  /\ last = Answered("none", NoReply, FALSE)
  /\ hist = [NoHistory EXCEPT !.assigned = {d.key : d \in devices}]
  /\ users = {[id |-> "u1", email |-> "a@x", password |-> "pw1", name |-> "a", verified |-> TRUE],
              [id |-> "u2", email |-> "b@x", password |-> "pw2", name |-> "b", verified |-> TRUE]}
  /\ blacklist = {}

NextDevices == Receive \/ StartAnswered \/ PassThroughAnswered \/ Webhook \/ DeviceDeleted

SpecDevices == InitDevices /\ [][NextDevices]_vars

\* C19: a Device comes into being only in the step that answers a start
\* request whose provider response is HTTP 200 with success = true; a Device
\* goes away in no step of a relay operation or of a webhook delivery
\* (terminate, terminateAll and "disconnected" included), only when
\* deleteDevice is called.
C19_OnlySuccessfulStartCreates ==
  [][\A sid \in input.sessions :
       /\ (DeviceOf(devices, sid) = {} /\ DeviceOf(devices', sid) # {})
            => \E req \in DOMAIN pending :
                 \E presp \in input.provider[req.op] :
                   /\ req.op = "start" /\ req.sessionId = sid
                   /\ presp.status = 200 /\ Get(ParseBody(presp), "success") = B(TRUE)
                   /\ StartRespond(req, presp, FALSE)
       /\ (DeviceOf(devices, sid) # {} /\ DeviceOf(devices', sid) = {})
            => /\ DeleteDevice(sid)
               /\ last' = last /\ pending' = pending]_vars

\* the provider reported abc123 as disconnected, a terminate was relayed,
\* and the Device is still there
C19_Witness ==
  /\ \E d \in devices : d.sessionId = Abc123 /\ d.status = "disconnected"
  /\ last.kind = "relay"
  /\ last.reply = Reply(200, O([success |-> B(TRUE), message |-> Text("Logged out successfully")]))

\* C20: no two Devices share a key; a key once assigned to a Device is never
\* assigned to another one, also after the first was deleted; and a start
\* that the provider answers with success, for a sessionId without a Device
\* and with no store failure, leaves a Device: the key generated for it is
\* never one that is taken.
\* Violated: generateDeviceKey draws the key at random and createDevice
\* neither looks it up nor draws again.
C20_KeysNeverReused ==
  /\ [](\A d1, d2 \in devices : d1.key = d2.key => d1 = d2)
  /\ [][\A d \in devices' : DeviceOf(devices, d.sessionId) = {} => d.key \notin hist.assigned]_vars
  /\ [][\A req \in DOMAIN pending :
          \A presp \in input.provider[req.op] :
            (/\ StartRespond(req, presp, FALSE)
             /\ presp.status = 200 /\ Get(ParseBody(presp), "success") = B(TRUE)
             /\ DeviceOf(devices, req.sessionId) = {})
              => DeviceOf(devices', req.sessionId) # {}]_vars

-----------------------------------------------------------------------------
(* Messages: which Device they belong to, and what creates them *)

\* C21: a Message is stored only by a delivery for a sessionId that has a
\* Device at that time, and it carries that Device's key; a delivery for a
\* sessionId without a Device stores nothing, and no later step (the start
\* that creates the Device included) stores its message.
C21_MessageScopedToDevice ==
  [][messages' # messages
       => \E body \in input.webhookBodies, d \in devices :
            /\ Get(body, "sessionId") = S(d.sessionId)
            /\ Len(messages') = Len(messages) + 1
            /\ SubSeq(messages', 1, Len(messages)) = messages
            /\ messages'[Len(messages')].deviceKey = d.key
            /\ \E hdr \in input.webhookHeaders : WebhookDeliver(hdr, body, NoWebhookFault)]_vars

\* a message was delivered before abc123 had a Device and again after: one
\* row is stored, under the Device's key
C21_Witness ==
  /\ Len(messages) = 1
  /\ \E d \in devices : d.sessionId = Abc123 /\ messages[1].deviceKey = d.key
  /\ hist.stored = {WebhookBody(S(Abc123), Text("message"), ScenarioMessage)}
  /\ last.kind = "webhook"

\* data that has the shape of a message: an object with one of the fields
\* a Message row is read from, bare or under message or _data
MessageShaped(data) ==
  LET fields == {"id", "from", "to", "body", "text", "type", "t", "timestamp"}
      Bare(v) == v.t = "obj" /\ DOMAIN v.o \cap fields # {}
  IN \/ Bare(data)
     \/ Bare(Get(data, "_data"))
     \/ Bare(Get(data, "message"))
     \/ Bare(Get(Get(data, "message"), "_data"))

\* C22: a Message is created by a webhook delivery that carries
\* message-shaped data and by nothing else: a delivery whose data is not a
\* message (a lifecycle delivery with its own data included) creates no
\* row, a delivery creates at most one row, and no step changes or removes
\* a row that is stored.
\* Violated: the handler takes any truthy data of the body as the message.
C22_OnlyMessageDataCreates ==
  [][messages' # messages
       => /\ Len(messages') = Len(messages) + 1
          /\ SubSeq(messages', 1, Len(messages)) = messages
          /\ \A hdr \in input.webhookHeaders, body \in input.webhookBodies :
               WebhookDeliver(hdr, body, NoWebhookFault) => MessageShaped(Get(body, "data"))]_vars

-----------------------------------------------------------------------------
(* Accounts and tokens: /auth/register, /auth/login, /auth/logout, the *)
(* /users/me routes and the token blacklist                            *)

MaxIat == 2   \* seconds of the clock at which a token may be signed

\* AuthUtils.generateToken: the JWT of a user signed at second iat; the same
\* user and second give the same token
Token(userId, iat) == [userId |-> userId, iat |-> iat]

\* the token a request carries (AuthUtils.extractTokenFromRequest): one the
\* server issued, or none
Bearer == hist.issued \cup {Undef}

\* the preHandler hook of the application: the reply when the token of a
\* request is blacklisted and the url is neither under /auth/ nor /health
TokenInvalidated(url, tok) ==
  IF url[1] \notin {"auth", "health"} /\ tok # Undef /\ tok \in blacklist
  THEN Reply(401, O([error |-> Text("Token has been invalidated")]))
  ELSE NoReply

\* the hook, then fastify.authenticate: jwtVerify fails without a token and
\* the error is sent through the error handler
Authenticate(url, tok) ==
  IF TokenInvalidated(url, tok) # NoReply THEN TokenInvalidated(url, tok)
  ELSE IF tok = Undef
       THEN Reply(401, O([error |-> Text("No Authorization was found in request.headers")]))
       ELSE NoReply

\* the answer to a request of these routes, with the route and the token
Asked(route, tok, reply, storeError) ==
  [kind |-> "auth", route |-> route, token |-> tok, reply |-> reply, storeError |-> storeError]

AuthServerError == Reply(500, O([error |-> Text("Internal server error")]))

\* POST /auth/register; the reply carries message and user, and no token
Register ==
  \E c \in input.credentials, fault \in StoreFaults :
    LET existing == {u \in users : u.email = c.email}
        id == "u3"   \* the id the store generates for the new row
        created == ~fault /\ existing = {}
    IN
    /\ users' = IF created
                THEN users \cup {[id |-> id, email |-> c.email, password |-> c.password,
                                  name |-> c.email, verified |-> FALSE]}
                ELSE users
    /\ last' = Asked("POST /auth/register", Undef,
                     IF fault THEN AuthServerError
                     ELSE IF existing # {}
                     THEN Reply(400, O([error |-> Text("User already exists with this email")]))
                     ELSE Reply(201, O([message |-> Text("User registered successfully. Please check your email to verify your account."),
                                        user |-> O([id |-> Text(id), email |-> Text(c.email),
                                                    name |-> Text(c.email),
                                                    isEmailVerified |-> B(FALSE)])])),
                     fault)
    /\ UNCHANGED <<env, input, apikeys, devices, messages, contacts, pending, hist, blacklist>>

\* POST /auth/login at second iat of the clock
Login ==
  \E c \in input.credentials, fault \in StoreFaults, iat \in 1..MaxIat :
    LET found == {u \in users : u.email = c.email}
        user == CHOOSE u \in found : TRUE
        ok == ~fault /\ found # {} /\ user.verified /\ user.password = c.password
    IN
    /\ \A tok \in hist.issued : tok.iat <= iat
    /\ hist' = IF ok THEN [hist EXCEPT !.issued = @ \cup {Token(user.id, iat)}] ELSE hist
    /\ last' = Asked("POST /auth/login", Undef,
                     IF fault THEN AuthServerError
                     ELSE IF found = {}
                     THEN Reply(401, O([error |-> Text("Invalid email or password")]))
                     ELSE IF ~user.verified
                     THEN Reply(401, O([error |-> Text("Please verify your email address before logging in. Check your inbox for the verification link.")]))
                     ELSE IF user.password # c.password
                     THEN Reply(401, O([error |-> Text("Invalid email or password")]))
                     ELSE Reply(200, O([message |-> Text("Login successful"),
                                        user |-> O([id |-> Text(user.id), email |-> Text(user.email),
                                                    name |-> Text(user.name)]),
                                        token |-> O(Token(user.id, iat))])),
                     fault)
    /\ UNCHANGED <<env, input, apikeys, devices, messages, contacts, pending, users, blacklist>>

\* POST /auth/logout
Logout ==
  \E tok \in Bearer :
    LET denied == Authenticate(<<"auth", "logout">>, tok) IN
    /\ blacklist' = IF denied = NoReply THEN blacklist \cup {tok} ELSE blacklist
    /\ last' = Asked("POST /auth/logout", tok,
                     IF denied = NoReply THEN Reply(200, O([message |-> Text("Logout successful")]))
                     ELSE denied,
                     FALSE)
    /\ UNCHANGED <<env, input, apikeys, devices, messages, contacts, pending, hist, users>>

\* GET /users/me
GetMe ==
  \E tok \in Bearer, fault \in StoreFaults :
    LET denied == Authenticate(<<"users", "me">>, tok)
        found == {u \in users : u.id = tok.userId}
        user == CHOOSE u \in found : TRUE
    IN
    /\ last' = Asked("GET /users/me", tok,
                     IF denied # NoReply THEN denied
                     ELSE IF fault THEN AuthServerError
                     ELSE IF found = {} THEN Reply(404, O([error |-> Text("User not found")]))
                     ELSE Reply(200, O([user |-> O([id |-> Text(user.id), email |-> Text(user.email),
                                                    name |-> Text(user.name)])])),
                     denied = NoReply /\ fault)
    /\ UNCHANGED <<env, input, apikeys, devices, messages, contacts, pending, hist, users, blacklist>>

\* PUT /users/me with a name; the update of a row that is gone throws
PutMe ==
  \E tok \in Bearer, name \in {"a", "z"}, fault \in StoreFaults :
    LET denied == Authenticate(<<"users", "me">>, tok)
        found == {u \in users : u.id = tok.userId}
        user == CHOOSE u \in found : TRUE
        threw == denied = NoReply /\ (fault \/ found = {})
        updated == denied = NoReply /\ ~threw
    IN
    /\ users' = IF updated THEN (users \ found) \cup {[user EXCEPT !.name = name]} ELSE users
    /\ last' = Asked("PUT /users/me", tok,
                     IF denied # NoReply THEN denied
                     ELSE IF threw THEN AuthServerError
                     ELSE Reply(200, O([message |-> Text("Profile updated successfully"),
                                        user |-> O([id |-> Text(user.id), email |-> Text(user.email),
                                                    name |-> Text(name)])])),
                     threw)
    /\ UNCHANGED <<env, input, apikeys, devices, messages, contacts, pending, hist, blacklist>>

\* POST /users/me/change-password
ChangePassword ==
  \E tok \in Bearer, c \in input.credentials, new \in {"pw9"}, fault \in StoreFaults :
    LET denied == Authenticate(<<"users", "me", "change-password">>, tok)
        found == {u \in users : u.id = tok.userId}
        user == CHOOSE u \in found : TRUE
        changed == denied = NoReply /\ ~fault /\ found # {} /\ user.password = c.password
    IN
    /\ users' = IF changed THEN (users \ found) \cup {[user EXCEPT !.password = new]} ELSE users
    /\ blacklist' = IF changed THEN blacklist \cup {tok} ELSE blacklist
    /\ last' = Asked("POST /users/me/change-password", tok,
                     IF denied # NoReply THEN denied
                     ELSE IF fault THEN AuthServerError
                     ELSE IF found = {}
                     THEN Reply(400, O([error |-> Text("Cannot change password for OAuth users")]))
                     ELSE IF user.password # c.password
                     THEN Reply(401, O([error |-> Text("Current password is incorrect")]))
                     ELSE Reply(200, O([message |-> Text("Password changed successfully. Please login again.")])),
                     denied = NoReply /\ fault)
    /\ UNCHANGED <<env, input, apikeys, devices, messages, contacts, pending, hist>>

\* DELETE /users/me; the delete of a row that is gone throws, and the
\* token is blacklisted only after the delete
DeleteMe ==
  \E tok \in Bearer, fault \in StoreFaults :
    LET denied == Authenticate(<<"users", "me">>, tok)
        found == {u \in users : u.id = tok.userId}
        threw == denied = NoReply /\ (fault \/ found = {})
        deleted == denied = NoReply /\ ~threw
    IN
    /\ users' = IF deleted THEN users \ found ELSE users
    /\ apikeys' = IF deleted THEN {k \in apikeys : k.userId # tok.userId} ELSE apikeys
    /\ blacklist' = IF deleted THEN blacklist \cup {tok} ELSE blacklist
    /\ last' = Asked("DELETE /users/me", tok,
                     IF denied # NoReply THEN denied
                     ELSE IF threw THEN AuthServerError
                     ELSE Reply(200, O([message |-> Text("Account deleted successfully")])),
                     threw)
    /\ UNCHANGED <<env, input, devices, messages, contacts, pending, hist>>

\* a relay request that also carries a token: the headers are validated,
\* then the hook runs, then the route's own preHandler and handler
RelayBearing(tok, op, sid, hdr, fault) ==
  IF HeadersValid(hdr) /\ TokenInvalidated(<<"session", op>>, tok) # NoReply
  THEN /\ last' = Answered("relay", Send(401, TokenInvalidated(<<"session", op>>, tok).body), FALSE)
       /\ UNCHANGED <<env, input, apikeys, devices, messages, contacts, pending, hist,
                      users, blacklist>>
  ELSE RelayReceive(op, sid, hdr, fault)

InitAuth ==
  /\ Environment({Text("secret")}, {TRUE}, {FALSE})
  /\ input = [NoRequests EXCEPT
                !.relayOps = {"status"},
                !.relayHeaders = {Undef, Text("k2")},
                !.sessions = {Abc123},
                !.credentials = {[email |-> "a@x", password |-> "pw1"],
                                 [email |-> "c@x", password |-> "pw3"]}]
  /\ EmptyStore

NextAuth ==
  \/ Register \/ Login \/ Logout \/ GetMe \/ PutMe \/ ChangePassword \/ DeleteMe
  \/ \E tok \in Bearer, op \in input.relayOps, sid \in input.sessions,
        hdr \in input.relayHeaders :
       RelayBearing(tok, op, sid, hdr, FALSE)

SpecAuth == InitAuth /\ [][NextAuth]_vars

\* the routes whose success invalidates the token of the request
Invalidating == {"POST /auth/logout", "POST /users/me/change-password", "DELETE /users/me"}

\* a step that answers a request of the /users routes
UsersAnswered ==
  /\ last' # last
  /\ last'.kind = "auth"
  /\ last'.route \in {"GET /users/me", "PUT /users/me", "POST /users/me/change-password",
                      "DELETE /users/me"}

\* a successful logout, password change or account deletion invalidates its
\* token, and an invalidated token stays invalidated
C23_Invalidation ==
  /\ [][(last' # last /\ last'.kind = "auth" /\ last'.route \in Invalidating
           /\ last'.reply.status = 200)
          => last'.token \in blacklist']_vars
  /\ [][blacklist \subseteq blacklist']_vars

\* a request of the /users routes with an invalidated token is answered 401
\* "Token has been invalidated" and changes no table; with a token that was
\* not invalidated it is never answered so
C23_UsersRoutesReject ==
  [][UsersAnswered
       => IF last'.token \in blacklist
          THEN /\ last'.reply = Reply(401, O([error |-> Text("Token has been invalidated")]))
               /\ UNCHANGED <<users, apikeys, blacklist>>
          ELSE last'.reply # Reply(401, O([error |-> Text("Token has been invalidated")]))]_vars

\* C23: after a logout, a password change or an account deletion with
\* token T, every later request that carries T to a route outside /auth/
\* and /health is answered 401 "Token has been invalidated" for as long as
\* the process runs, and a token that was never invalidated is not rejected
\* by the blacklist check.
\* Violated on the relay routes: without x-api-key the request fails
\* validation with 400 before the hook runs, and with it the 401 schema of
\* the route drops the error field of the hook's reply.
C23_InvalidatedTokenRejected ==
  /\ C23_Invalidation
  /\ C23_UsersRoutesReject
  /\ [][\A tok \in blacklist, op \in input.relayOps, sid \in input.sessions,
          hdr \in input.relayHeaders :
          (last' # last /\ RelayBearing(tok, op, sid, hdr, FALSE))
            => last'.reply = Reply(401, O([error |-> Text("Token has been invalidated")]))]_vars

\* C24: a successful registration returns a token, and with no further
\* step that token is accepted by the protected routes: it is a token the
\* server signed, it is not invalidated, and GET /users/me, PUT /users/me
\* and POST /auth/logout with it are not refused.
\* Violated: the reply to a registration carries message and user only.
C24_RegistrationTokenAccepted ==
  [][(/\ last' # last
      /\ last'.kind = "auth"
      /\ last'.route = "POST /auth/register"
      /\ last'.reply.status = 201)
       => LET token == Get(last'.reply.body, "token") IN
          /\ token # Undef
          /\ token.o \in hist'.issued
          /\ token.o \notin blacklist'
          /\ \E u \in users' : u.id = token.o.userId]_vars

-----------------------------------------------------------------------------
(* Two operators: each owns one Device, and either may name either session *)

\* the store after u1 started abc123 and u2 started s2
InitOwners ==
  /\ Environment({Text("secret")}, {FALSE}, {FALSE})
  /\ input = [NoRequests EXCEPT
                !.relayOps = {"start", "getContacts"},
                !.relayHeaders = {Text("k1"), Text("k2")},
                !.sessions = {Abc123, OtherSession},
                !.provider = [op \in DOMAIN NoRequests.provider |->
                                IF op = "start" THEN {StartOk}
                                ELSE IF op = "getContacts"
                                  THEN {ProviderJson(200, A(<<UserContact("111", "Ann")>>))}
                                ELSE {}],
                !.webhookHeaders = {Text("secret")},
                !.webhookBodies = {WebhookBody(S(Abc123), Text(d), Undef)
                                     : d \in {"ready", "bogus"}}]
  /\ apikeys = InitialKeys
  /\ devices = {[sessionId |-> Abc123, key |-> 1, userId |-> "u1", number |-> "",
                 status |-> "connecting"],
                [sessionId |-> OtherSession, key |-> 2, userId |-> "u2", number |-> "",
                 status |-> "connecting"]}
  /\ messages = <<>>
  /\ contacts = {}
  /\ pending = EmptyBag
  /\ last = Answered("none", NoReply, FALSE)
  /\ hist = [NoHistory EXCEPT !.assigned = {d.key : d \in devices}]
  /\ users = {[id |-> "u1", email |-> "a@x", password |-> "pw1", name |-> "a", verified |-> TRUE],
              [id |-> "u2", email |-> "b@x", password |-> "pw2", name |-> "b", verified |-> TRUE]}
  /\ blacklist = {}

NextOwners == Receive \/ StartAnswered \/ ContactsAnswered \/ Webhook

SpecOwners == InitOwners /\ [][NextOwners]_vars

\* the rows of a table of contacts that belong to the Device of sid
ContactsOf(rows, devs, sid) == {r \in rows : \E d \in DeviceOf(devs, sid) : r.deviceKey = d.key}

\* C25: a relay request of one operator that names the session of another
\* operator's Device writes no Contact row under that Device's key and
\* leaves the Device as it is: the contact sync runs only for the owner.
\* Violated: the sync looks the Device up by sessionId alone.
C25_ForeignOperatorCannotSync ==
  [][\A req \in DOMAIN pending :
       \A presp \in input.provider[req.op] :
         (/\ \E d \in DeviceOf(devices, req.sessionId) : d.userId # req.userId
          /\ \/ GetContactsRespond(req, presp, FALSE, {})
             \/ StartRespond(req, presp, FALSE))
           => /\ DeviceOf(devices', req.sessionId) = DeviceOf(devices, req.sessionId)
              /\ ContactsOf(contacts', devices, req.sessionId)
                   = ContactsOf(contacts, devices, req.sessionId)]_vars

\* C26: a contact sync for one Device neither modifies nor re-assigns a
\* Contact row that a sync for a different Device stored: after the step
\* every row of another Device is in the table as it was.
\* Violated: rows are found by contactId alone, and the update writes the
\* deviceKey of the running sync.
C26_SyncLeavesOtherDevicesRows ==
  [][\A req \in DOMAIN pending :
       \A presp \in input.provider[req.op] :
         GetContactsRespond(req, presp, FALSE, {})
           => \A r \in contacts \ ContactsOf(contacts, devices, req.sessionId) :
                r \in contacts']_vars

\* C27: a status delivery for sessionId s changes only the status of the
\* Device of s: its key, owner, number and sessionId and every other Device
\* stay as they are. A start that the provider answers with success for a
\* sessionId that has a Device, from its owner or from another operator,
\* leaves that Device with its owner and its key, and alone.
C27_DeviceFrame ==
  /\ [][\A hdr \in input.webhookHeaders, body \in input.webhookBodies :
          WebhookDeliver(hdr, body, NoWebhookFault)
            => /\ Cardinality(devices') = Cardinality(devices)
               /\ \A d \in devices :
                    IF S(d.sessionId) = Get(body, "sessionId")
                    THEN \E status \in {s.s[1] : s \in StatusDataTypes} \cup {d.status} :
                           [d EXCEPT !.status = status] \in devices'
                    ELSE d \in devices']_vars
  /\ [][\A req \in DOMAIN pending :
          \A presp \in input.provider[req.op] :
            (/\ DeviceOf(devices, req.sessionId) # {}
             /\ StartSucceeded(presp)
             /\ StartRespond(req, presp, FALSE))
              => /\ Cardinality(DeviceOf(devices', req.sessionId)) = 1
                 /\ \A d \in DeviceOf(devices, req.sessionId) :
                      \E e \in DeviceOf(devices', req.sessionId) :
                        e.userId = d.userId /\ e.key = d.key]_vars

\* abc123 was started again, with success, after a ready delivery:
\* the Device is still u1's, has its key and is ready; the other is as it was
C27_Witness ==
  /\ last.kind = "relay"
  /\ last.reply = Send(200, StartOk.data)
  /\ hist.seen[Abc123] = "ready"
  /\ devices = {[sessionId |-> Abc123, key |-> 1, userId |-> "u1", number |-> "",
                 status |-> "ready"],
                [sessionId |-> OtherSession, key |-> 2, userId |-> "u2", number |-> "",
                 status |-> "connecting"]}

-----------------------------------------------------------------------------
(* The status a Device may hold *)

\* C28: the status of every Device is one of connecting, qr,
\* authenticated, ready, connected and disconnected: a start stores
\* connecting, never the default unknown, and no delivery, whatever its
\* dataType, stores another value.
C28_StatusIsLifecycle ==
  /\ [](\A d \in devices : Text(d.status) \in StatusDataTypes)
  /\ [][\A d \in devices' :
          DeviceOf(devices, d.sessionId) = {} => d.status = "connecting"]_vars

\* the Device of abc123 after a start and a qr delivery, and a delivery
\* with a dataType outside the six answered since
C28_Witness ==
  /\ \E d \in devices : d.sessionId = Abc123 /\ d.status = "qr"
  /\ last.kind = "webhook"
  /\ last.reply = WebhookAck(Text("bogus"), S(Abc123))

-----------------------------------------------------------------------------
(* A contact sync in which the save of single contacts fails *)

\* the store holds the Device of abc123; the provider's collections hold
\* two contacts of users with a group between them, and one contact
InitPartial ==
  /\ Environment({Text("secret")}, {TRUE}, {FALSE})
  /\ input = [NoRequests EXCEPT
                !.relayOps = {"getContacts"},
                !.relayHeaders = {Text("k1")},
                !.sessions = {Abc123, OtherSession},
                !.provider = [op \in DOMAIN NoRequests.provider |->
                                IF op = "getContacts"
                                  THEN {ProviderJson(200, A(<<UserContact("111", "Bob"),
                                                              GroupContact, PlainIdContact>>)),
                                        ProviderJson(200, A(<<UserContact("111", "Ann")>>))}
                                ELSE {}]]
  /\ apikeys = InitialKeys
  /\ devices = {[sessionId |-> Abc123, key |-> 1, userId |-> "u1", number |-> "",
                 status |-> "connecting"]}
  /\ messages = <<>>
  /\ contacts = {}
  /\ pending = EmptyBag
  /\ last = Answered("none", NoReply, FALSE)
  /\ hist = [NoHistory EXCEPT !.assigned = {1}]
  /\ users = {[id |-> "u1", email |-> "a@x", password |-> "pw1", name |-> "a", verified |-> TRUE],
              [id |-> "u2", email |-> "b@x", password |-> "pw2", name |-> "b", verified |-> TRUE]}
  /\ blacklist = {}

SpecPartial == InitPartial /\ [][NextSync]_vars

\* C29: within one contact sync the failure to save one contact does not
\* stop the sync: every other contact of a user in the collection has its
\* row afterwards, and the list saveContacts returns holds the rows of the
\* contacts that were saved, and no others, in the order of the collection.
C29_FailedSaveSkipsOneContact ==
  [][\A req \in DOMAIN pending :
       \A presp \in input.provider[req.op] :
         \A faults \in ContactFaults(presp) :
           (/\ pending' = pending (-) SetToBag({req})
            /\ DeviceOf(devices, req.sessionId) # {}
            /\ GetContactsRespond(req, presp, FALSE, faults))
             => LET list == ContactsData(ParseBody(presp))
                    key == (CHOOSE d \in DeviceOf(devices, req.sessionId) : TRUE).key
                    saved == UserPositions(list) \ faults
                    Row(i) == [contactId |-> ResolveContactId(list[i])]
                                @@ ContactFields(key, list[i])
                    Nth(k) == CHOOSE i \in saved : Cardinality({j \in saved : j < i}) = k - 1
                    out == SaveContacts(contacts, key, list, 1, faults)
                IN /\ \A i \in saved : Row(i) \in contacts'
                   /\ contacts' \ contacts \subseteq {Row(i) : i \in saved}
                   /\ out.results = [k \in 1..Cardinality(saved) |-> Row(Nth(k))]]_vars

\* the save of the first contact of the collection failed, and the third
\* contact, after the group, has its row
C29_Witness ==
  /\ last.kind = "relay"
  /\ last.storeError
  /\ ContactIds(contacts) = {ResolveContactId(PlainIdContact)}

-----------------------------------------------------------------------------
(* API keys: whose keys an operator may administer *)

\* C30: an operator changes the status of, and deletes, only the API keys
\* of their own account: a PUT or DELETE /apikeys/:keyId that names a key
\* of another account is answered 404 and leaves every key as it is.
C30_OnlyOwnKeysAdministered ==
  [][\A hdr \in input.adminHeaders, keyId \in input.keyIds, status \in BOOLEAN :
       (/\ \/ ApiKeyPut(hdr, keyId, status, FALSE, FALSE)
           \/ ApiKeyDelete(hdr, keyId, FALSE, FALSE)
        /\ \E caller \in ActiveKeyRecords(hdr.s) :
             \A k \in apikeys : k.id = keyId => k.userId # caller.userId)
         => /\ last'.reply = KeyNotFound
            /\ apikeys' = apikeys]_vars

\* operator u2 named key1 of u1, which exists and is active, and was
\* answered 404
C30_Witness ==
  /\ last.kind = "apikeys"
  /\ last.reply = KeyNotFound
  /\ \E k \in apikeys : k.id = "key1" /\ k.userId = "u1" /\ k.status
  /\ apikeys = InitialKeys

====
